---- MODULE Spec2Model ----
(***************************************************************************)
(* BlockTrace-api: the chain transaction aggregation engine.               *)
(*                                                                         *)
(* Seven specifications share this module.                                 *)
(*   SpecBatch  - one run of the concurrent batch processor                *)
(*                (utils/solana.py, utils/eth.py) followed by the graph    *)
(*                assembly of get_wallet_graph_data.                       *)
(*   SpecQuota  - POST /data/wallet requests (routes/data.py) running the  *)
(*                quota check, the query log and the result cache of       *)
(*                analyze_*_wallet_endpoint, interleaved at their awaits.  *)
(*   SpecSeq    - the same requests one after the other.                   *)
(*   SpecSimple - the GET /data/simple/* requests (routes/data.py) over    *)
(*                the same result cache.                                   *)
(*   FairBatch  - SpecBatch under fair scheduling, for termination.        *)
(*   SpecSched  - the batch processor with several workers and wider       *)
(*                sub-batches over inputs whose fetches all succeed, where *)
(*                the tasks of a gather finish in any order.               *)
(*   SpecPrice  - calls of get_cached_token_price and prefetch_prices      *)
(*                over the price cache of one module, with the clock.      *)
(*                                                                         *)
(* Units.  Time is in seconds since the epoch.  Backoff delays are in      *)
(* half seconds.  Native amounts are kept in the integer unit the upstream *)
(* reports (lamports); the code divides every one of them by the same 1e9, *)
(* so equality of amounts is the equality of these integers.               *)
(***************************************************************************)
EXTENDS Integers, Sequences, FiniteSets, Bags, TLC

(***************************************************************************)
(* Bounds of the model.  The tier ceilings, the worker limits and the      *)
(* sub-batch sizes are the program's, scaled down so that every case of    *)
(* the code is reached within a small input list: the code has             *)
(* max_transactions 50/500, daily_address_limit 5/50, Semaphore(3)/(5),    *)
(* batch_size 5/10 and lru_cache(maxsize=100).  WideSemaphore and          *)
(* WideBatchSize are a second, wider scale of Semaphore(.) and batch_size, *)
(* used where the order in which concurrent tasks finish matters.          *)
(* MaxClock is how long the price cache is followed, in seconds.           *)
(***************************************************************************)
MaxSigs == 3
MaxTxFree == 2
MaxTxPro == 3
SolSemaphore == 1
EthSemaphore == 1
SolBatchSize == 2
EthBatchSize == 2
RequestTime == 1700000000
MaxClockDrift == 1
DailyLimitFree == 1
DailyLimitPro == 2
MaxRequests == 3
WideSemaphore == 2
WideBatchSize == 3
LruMaxSize == 2
MaxClock == 600

(* Program constants. *)
TimeRangeDaysFree == 7
TimeRangeDaysPro == 180
MaxRetries == 3
FetchLimitCap == 1000
SecondsPerBlock == 12
CurrentBlockEstimate == 21000000
CurrentBlockFallback == 18500000

PRICE_CACHE_TTL == 300

SecondsPerDay == 24 * 60 * 60

Min(a, b) == IF a < b THEN a ELSE b
Max(a, b) == IF a > b THEN a ELSE b
Abs(x) == IF x < 0 THEN 0 - x ELSE x

RECURSIVE Pow2(_)
Pow2(n) == IF n = 0 THEN 1 ELSE 2 * Pow2(n - 1)

RECURSIVE Pow10(_)
Pow10(n) == IF n = 0 THEN 1 ELSE 10 * Pow10(n - 1)

RECURSIVE Flatten(_)
Flatten(ss) == IF ss = <<>> THEN <<>> ELSE Head(ss) \o Flatten(Tail(ss))

Range(s) == {s[k] : k \in 1..Len(s)}

SeqsUpTo(S, n) == UNION {[1..m -> S] : m \in 0..n}

(***************************************************************************)
(* str.lower() on the strings of the model: the upper-case spellings and   *)
(* what they lower to; every other string of the model is lower-case       *)
(* already or is never lowered.                                            *)
(***************************************************************************)
(* str.strip on the addresses the model posts. *)
Strip(s) ==
    CASE s = " 0xBB" -> "0xBB"
      [] OTHER -> s

Lower(s) ==
    CASE s = "0xAA" -> "0xaa"
      [] s = "0xUSDC" -> "0xusdc"
      [] s = "SoLA" -> "sola"
      [] s = "SoLB" -> "solb"
      [] s = "SOLa" -> "sola"
      [] s = " 0xBB" -> " 0xbb"
      [] s = "0xBB" -> "0xbb"
      [] OTHER -> s

(***************************************************************************)
(* Tier Policy.                                                            *)
(***************************************************************************)
SUBSCRIPTION_LIMITS ==
    [free |-> [time_range_days |-> TimeRangeDaysFree, daily_address_limit |-> DailyLimitFree,
               max_transactions |-> MaxTxFree],
     pro  |-> [time_range_days |-> TimeRangeDaysPro, daily_address_limit |-> DailyLimitPro,
               max_transactions |-> MaxTxPro]]

Tiers == {"free", "pro"}

get_subscription_limits_pro(tier) == SUBSCRIPTION_LIMITS.pro

get_subscription_limits(tier) ==
    IF Lower(tier) = "pro" THEN SUBSCRIPTION_LIMITS.pro ELSE SUBSCRIPTION_LIMITS.free

calculate_time_range(tier) ==
    RequestTime - get_subscription_limits(tier).time_range_days * SecondsPerDay

fetch_limit(tier) == Min(get_subscription_limits(tier).max_transactions * 2, FetchLimitCap)

Take(s, n) == SubSeq(s, 1, Min(n, Len(s)))

(***************************************************************************)
(* Solana upstream.  SolSignatures are the descriptors getSignaturesFor-   *)
(* Address can list; SolTx(sig) is the getTransaction payload of each (a   *)
(* transaction's payload is fixed by its signature).  blockTime 0 stands   *)
(* for a missing blockTime (both are falsy in the code).                   *)
(*   s1  in range: native A->B of 1 SOL, seen by the balance delta and by  *)
(*       an explicit system transfer instruction, and a token transfer     *)
(*       C->A                                                              *)
(*   s2  in range: no transfer of the queried address                      *)
(*   s3  30 days old (outside free, inside pro): native A->B of 1 SOL,     *)
(*       seen by the balance delta and by a system transfer instruction    *)
(*   s4  blockTime missing                                                 *)
(*   s5  in range: a transfer to A of a token whose mint the program does  *)
(*       not know                                                          *)
(* The price of a record depends on neither its place in the list nor a    *)
(* repetition, so the runs with a failing price oracle are those of        *)
(* get_wallet_graph_data over lists without a repeated item.               *)
(* The detail fetches of FlakySignatures are the ones that can come back   *)
(* empty or rate limited.  The retry loop reads nothing of the item, so    *)
(* which signature fails makes no difference to it, and an input list of   *)
(* s1 alone meets every pattern of failures over its positions.            *)
(***************************************************************************)
FlakySignatures == {"s1"}

SolUser == "SoLA"

NoInstr ==
    [program |-> "none", type |-> "none", source |-> "none", destination |-> "none",
     authority |-> "none", lamports |-> 0, amount |-> 0, decimals |-> 0,
     uiAmount |-> 0, mint |-> "none"]

SolSignatures ==
    {[signature |-> "s1", blockTime |-> RequestTime - 3600],
     [signature |-> "s2", blockTime |-> RequestTime - 7200],
     [signature |-> "s3", blockTime |-> RequestTime - 30 * SecondsPerDay],
     [signature |-> "s4", blockTime |-> 0],
     [signature |-> "s5", blockTime |-> RequestTime - 1800]}

SystemTransfer(src, dst, lamports) ==
    [NoInstr EXCEPT !.program = "system", !.type = "transfer",
                    !.source = src, !.destination = dst, !.lamports = lamports]

SolTx(sig) ==
    CASE sig = "s1" ->
           [accountKeys |-> <<"SoLA", "SoLB", "SoLC">>,
            preBalances |-> <<1500005000, 0, 900>>,
            postBalances |-> <<500000000, 1000000000, 900>>,
            instructions |-> <<SystemTransfer("SoLA", "SoLB", 1000000000),
                               [NoInstr EXCEPT !.program = "spl-token",
                                   !.type = "transferChecked", !.authority = "SoLC",
                                   !.destination = "SoLA", !.uiAmount = 5,
                                   !.mint = "USDCmint"]>>]
      [] sig = "s3" ->
           [accountKeys |-> <<"SoLA", "SoLB">>,
            preBalances |-> <<1500005000, 0>>,
            postBalances |-> <<500000000, 1000000000>>,
            instructions |-> <<SystemTransfer("SoLA", "SoLB", 1000000000)>>]
      [] sig = "s5" ->
           [accountKeys |-> <<"SoLD", "SoLA">>,
            preBalances |-> <<7000, 300>>,
            postBalances |-> <<2000, 300>>,
            instructions |-> <<[NoInstr EXCEPT !.program = "spl-token",
                                   !.type = "transfer", !.authority = "SoLD",
                                   !.destination = "SoLA", !.amount = 25]>>]
      [] OTHER ->
           [accountKeys |-> <<"SoLA", "Vote111">>,
            preBalances |-> <<10000, 1>>,
            postBalances |-> <<5000, 1>>,
            instructions |-> <<[NoInstr EXCEPT !.program = "vote", !.type = "vote"]>>]

SPL_TOKENS == [USDCmint |-> "USDC"]

SplSymbol(mint) == IF mint = "USDCmint" THEN SPL_TOKENS.USDCmint ELSE "SPL Token"

(***************************************************************************)
(* parse_transaction_transfers: the balance-delta path, then the           *)
(* instruction scan.                                                       *)
(***************************************************************************)
balance_changes(tx) ==
    LET idx == SelectSeq([k \in 1..Len(tx.accountKeys) |-> k],
                         LAMBDA k : /\ k <= Len(tx.preBalances)
                                    /\ k <= Len(tx.postBalances)
                                    /\ tx.postBalances[k] - tx.preBalances[k] # 0)
    IN [k \in 1..Len(idx) |->
           [address |-> tx.accountKeys[idx[k]],
            change |-> tx.postBalances[idx[k]] - tx.preBalances[idx[k]]]]

DeltaTransfers(tx, user_address) ==
    LET bc == balance_changes(tx)
        mine == SelectSeq(bc, LAMBDA e : e.address = user_address)
        user_change == IF mine = <<>> THEN 0 ELSE mine[Len(mine)].change
        others == SelectSeq(bc, LAMBDA e :
                      /\ e.address # user_address
                      /\ \/ user_change > 0 /\ e.change < 0
                         \/ user_change < 0 /\ e.change > 0)
    IN IF user_change = 0 \/ others = <<>> THEN <<>>
       ELSE LET incoming == user_change > 0
                other == others[1]
            IN <<[source |-> IF incoming THEN other.address ELSE user_address,
                  destination |-> IF incoming THEN user_address ELSE other.address,
                  amount |-> Abs(other.change),
                  direction |-> IF incoming THEN "incoming" ELSE "outgoing",
                  token |-> "SOL",
                  token_address |-> "none"]>>

InstrTransfers(ins, user_address) ==
    IF ins.type = "transfer" /\ ins.program = "system" THEN
        IF ins.source = user_address \/ ins.destination = user_address
        THEN <<[source |-> ins.source, destination |-> ins.destination,
                amount |-> ins.lamports,
                direction |-> IF ins.source = user_address THEN "outgoing" ELSE "incoming",
                token |-> "SOL", token_address |-> "none"]>>
        ELSE <<>>
    ELSE IF ins.program = "spl-token" /\ ins.type \in {"transfer", "transferChecked"} THEN
        LET source_owner == IF ins.authority # "none" THEN ins.authority ELSE ins.source
            dest_owner == ins.destination
            amount == IF ins.type = "transferChecked" THEN ins.uiAmount
                      ELSE IF ins.decimals > 0
                           THEN ins.amount \div Pow10(ins.decimals)
                           ELSE ins.amount
            token_address == IF ins.type = "transferChecked" THEN ins.mint
                             ELSE IF ins.mint = "none" THEN "UNKNOWN" ELSE ins.mint
        IN IF source_owner = user_address \/ dest_owner = user_address
           THEN <<[source |-> source_owner, destination |-> dest_owner,
                   amount |-> amount,
                   direction |-> IF source_owner = user_address THEN "outgoing" ELSE "incoming",
                   token |-> SplSymbol(token_address), token_address |-> token_address]>>
           ELSE <<>>
    ELSE <<>>

parse_transaction_transfers(tx, user_address) ==
    DeltaTransfers(tx, user_address)
        \o Flatten([k \in 1..Len(tx.instructions) |->
                       InstrTransfers(tx.instructions[k], user_address)])

(***************************************************************************)
(* Price Oracle Cache.  A price is the text of its decimal; MarketPrice is *)
(* what the oracle quotes when it answers.  symbol_map and default_prices  *)
(* have the same keys in each module; the entries kept are those of the    *)
(* tokens the catalogues hold.  A usd_equivalent is the product            *)
(* amount * price, kept as its two factors.                                *)
(***************************************************************************)
default_prices(c) ==
    IF c = "solana" THEN [SOL |-> "204.95", USDC |-> "0.999814"]
    ELSE [ETH |-> "4300.73", USDC |-> "0.999814"]

symbol_map(c) ==
    IF c = "solana" THEN [SOL |-> "solana", USDC |-> "usd-coin"]
    ELSE [ETH |-> "ethereum", USDC |-> "usd-coin"]

MarketPrice == "market"

(* What one call of the oracle can come to: a quote, a 200 without the id,
   a 429, or an exception (timeout, connection error, another status). *)
OracleReplies == {"usd", "missing", "429", "error"}

FailureReplies == {"429", "error"}

get_token_price_usd_sync_no_fallback(c, symbol, reply) ==
    IF symbol \notin DOMAIN symbol_map(c) THEN "0"
    ELSE IF reply = "usd" THEN MarketPrice
    ELSE IF reply = "429" THEN "0"
    ELSE default_prices(c)[symbol]

get_token_price_usd_sync(c, symbol, reply) ==
    IF symbol \notin DOMAIN symbol_map(c) THEN "0"
    ELSE IF reply = "usd" THEN MarketPrice
    ELSE default_prices(c)[symbol]

(* Whether the price oracle answers the calls of the run. *)
VARIABLE oracle

(* get_cached_token_price in a run whose oracle calls all answer (oracle =
   "up": the prefetch has filled _token_price_cache) or all fail (oracle =
   "down": the prefetch failed and every miss is refreshed by a failed
   call, whose price is then the cached one). *)
get_cached_token_price(c, symbol) ==
    IF oracle = "up" THEN get_token_price_usd_sync(c, symbol, "usd")
    ELSE CHOOSE price \in {get_token_price_usd_sync(c, symbol, reply) :
                              reply \in FailureReplies} : TRUE

Zero == [amount |-> 0, price |-> "0"]

Times(amount, price) ==
    IF amount = 0 \/ price = "0" THEN Zero ELSE [amount |-> amount, price |-> price]

(***************************************************************************)
(* Ethereum upstream.  EthTransfers are the items alchemy_getAssetTransfers *)
(* can list.  blockNum 0 and hash "none" stand for a missing field; tsKind *)
(* tells whether metadata.blockTimestamp is an ISO text (blockTimestamp is *)
(* then the UTC second it denotes), an unparsable text, or absent.         *)
(*   e1  in range, native 0xaa->0xbb, hash h1                              *)
(*   e2  in range, token transfer 0xaa->0xcc of the same transaction h1    *)
(*   e3  30 days old (outside free, inside pro), native 0xbb->0xaa         *)
(*   e4  no blockTimestamp, 50 blocks before the code's block estimate     *)
(***************************************************************************)
EthUser == "0xAA"

EthTransfers ==
    {[hash |-> "h1", blockNum |-> 20999000, from |-> "0xaa", to |-> "0xbb", value |-> 1,
      category |-> "external", rawAddress |-> "none", rawValue |-> 0, rawDecimal |-> 18,
      tsKind |-> "iso", blockTimestamp |-> RequestTime - 3600],
     [hash |-> "h1", blockNum |-> 20999000, from |-> "0xaa", to |-> "0xcc", value |-> 5,
      category |-> "erc20", rawAddress |-> "0xusdc", rawValue |-> 5000000, rawDecimal |-> 6,
      tsKind |-> "iso", blockTimestamp |-> RequestTime - 3600],
     [hash |-> "h2", blockNum |-> 20800000, from |-> "0xbb", to |-> "0xaa", value |-> 2,
      category |-> "external", rawAddress |-> "none", rawValue |-> 0, rawDecimal |-> 18,
      tsKind |-> "iso", blockTimestamp |-> RequestTime - 30 * SecondsPerDay],
     [hash |-> "h3", blockNum |-> 20999950, from |-> "0xcc", to |-> "0xaa", value |-> 3,
      category |-> "internal", rawAddress |-> "none", rawValue |-> 0, rawDecimal |-> 18,
      tsKind |-> "none", blockTimestamp |-> 0]}

(* The keys of ERC20_TOKENS as the source spells them (checksummed case). *)
ERC20_TOKENS == [symbol |-> [a \in {"0xUSDC"} |-> "USDC"], decimals |-> [a \in {"0xUSDC"} |-> 6]]

SyntheticSymbol(token_address) ==
    IF token_address = "0xusdc" THEN "TOKEN_0xusdc" ELSE "TOKEN_"

EthTxDatetime(transfer, now) ==
    IF transfer.tsKind = "iso" THEN transfer.blockTimestamp
    ELSE IF transfer.tsKind = "bad"
         THEN now - (CurrentBlockFallback - transfer.blockNum) * SecondsPerBlock
         ELSE now - (CurrentBlockEstimate - transfer.blockNum) * SecondsPerBlock

EthNormalize(transfer, user_address, tx_datetime) ==
    LET from_address == Lower(transfer.from)
        to_address == Lower(transfer.to)
        user_address_lower == Lower(user_address)
        direction == IF from_address = user_address_lower THEN "outgoing"
                     ELSE IF to_address = user_address_lower THEN "incoming"
                     ELSE "interaction"
        native == transfer.category \in {"external", "internal"}
        token_address == IF native THEN "none" ELSE Lower(transfer.rawAddress)
        known == token_address \in DOMAIN ERC20_TOKENS.symbol
        token_symbol == IF native THEN "ETH"
                        ELSE IF known THEN ERC20_TOKENS.symbol[token_address]
                        ELSE SyntheticSymbol(token_address)
        decimals == IF known THEN ERC20_TOKENS.decimals[token_address] ELSE transfer.rawDecimal
        amount == IF native THEN transfer.value ELSE transfer.rawValue \div Pow10(decimals)
    IN [hash |-> transfer.hash, timestamp |-> tx_datetime,
        source |-> from_address, destination |-> to_address, amount |-> amount,
        direction |-> direction, token |-> token_symbol, token_address |-> token_address,
        usd_equivalent |-> Times(amount, get_cached_token_price("ethereum", token_symbol))]

SolUsdEquivalent(t) ==
    IF t.token = "SOL" THEN Times(t.amount, get_cached_token_price("solana", "SOL"))
    ELSE IF t.token_address \in DOMAIN SPL_TOKENS
         THEN Times(t.amount, get_cached_token_price("solana", SPL_TOKENS[t.token_address]))
         ELSE Zero

(***************************************************************************)
(* Deduplicator.                                                           *)
(***************************************************************************)
TransferKey(r) == <<r.hash, r.source, r.destination, r.amount, r.token>>

SolRecord(sig_obj, t) ==
    [hash |-> sig_obj.signature, timestamp |-> sig_obj.blockTime,
     source |-> t.source, destination |-> t.destination, amount |-> t.amount,
     direction |-> t.direction, token |-> t.token, token_address |-> t.token_address,
     usd_equivalent |-> SolUsdEquivalent(t)]

SolInteraction(sig_obj, user_address) ==
    [hash |-> sig_obj.signature, timestamp |-> sig_obj.blockTime,
     source |-> user_address, destination |-> "System Program", amount |-> 0,
     direction |-> "interaction", token |-> "SOL", token_address |-> "none",
     usd_equivalent |-> Zero]

RECURSIVE DedupTransfers(_, _, _, _)
DedupTransfers(transfers, sig_obj, seen, acc) ==
    IF transfers = <<>> THEN [records |-> acc, seen |-> seen]
    ELSE LET r == SolRecord(sig_obj, Head(transfers))
         IN IF TransferKey(r) \notin seen
            THEN DedupTransfers(Tail(transfers), sig_obj, seen \cup {TransferKey(r)},
                                Append(acc, r))
            ELSE DedupTransfers(Tail(transfers), sig_obj, seen, acc)

(* parse_transaction_transfers(tx_data, user_address) of each signature:
   the payload of a signature is fixed and the queried address is the one
   address of the model, so the parse of a signature is the same whenever
   it is made. *)
ParsedTransfers ==
    [sig \in {s.signature : s \in SolSignatures} |->
        parse_transaction_transfers(SolTx(sig), SolUser)]

SolProcessNoDedup(sig_obj, user_address, seen) ==
    LET transfers == ParsedTransfers[sig_obj.signature]
    IN [records |-> [k \in 1..Len(transfers) |-> SolRecord(sig_obj, transfers[k])],
        seen |-> seen]

SolProcess(sig_obj, user_address, seen) ==
    LET transfers == ParsedTransfers[sig_obj.signature]
    IN IF transfers # <<>>
       THEN DedupTransfers(transfers, sig_obj, seen, <<>>)
       ELSE [records |-> <<SolInteraction(sig_obj, user_address)>>, seen |-> seen]

EthProcess(transfer, user_address, tx_datetime, seen) ==
    LET r == EthNormalize(transfer, user_address, tx_datetime)
    IN IF TransferKey(r) \notin seen
       THEN [records |-> <<r>>, seen |-> seen \cup {TransferKey(r)}]
       ELSE [records |-> <<>>, seen |-> seen]

(***************************************************************************)
(* Batch loop helpers.                                                     *)
(***************************************************************************)
ReachedLimitNever(n, max) == FALSE

ReachedLimit(n, max) == n >= max

Truncate(txs, max) == SubSeq(txs, 1, Min(max, Len(txs)))

RECURSIVE AppendUntilLimit(_, _, _)
AppendUntilLimit(txs, results, max) ==
    IF results = <<>> THEN [transactions |-> txs, hit |-> FALSE]
    ELSE LET next == Append(txs, Head(results))
         IN IF ReachedLimit(Len(next), max)
            THEN [transactions |-> next, hit |-> TRUE]
            ELSE AppendUntilLimit(next, Tail(results), max)

BeforeEarliestUnchecked(t, earliest) == FALSE

BeforeEarliest(t, earliest) == t < earliest

RateLimitBackoffNoJitter(attempt) == 2 * Pow2(attempt)

RateLimitBackoff(attempt) == 2 * Pow2(attempt) + attempt

EmptyResultBackoff(attempt) == 2 * Pow2(attempt)

(* attempt < max_retries - 1: another attempt follows a failed one. *)
HasAttemptsLeftOneMore(attempt, max_retries) == attempt < max_retries

HasAttemptsLeft(attempt, max_retries) == attempt < max_retries - 1

CanAcquireUngated(value) == TRUE

CanAcquireNever(value) == FALSE

CanAcquire(value) == value > 0

SemaphoreOf(c) == IF c = "solana" THEN SolSemaphore ELSE EthSemaphore

BatchSizeOf(c) == IF c = "solana" THEN SolBatchSize ELSE EthBatchSize

UserOf(c) == IF c = "solana" THEN SolUser ELSE EthUser

CatalogueOf(c) == IF c = "solana" THEN SolSignatures ELSE EthTransfers

(* get_solana_transactions_for_graph_async: the early time filter. *)
FilterSignatures(sigs, earliest, max) ==
    Take(SelectSeq(sigs, LAMBDA s : s.blockTime # 0 /\ s.blockTime >= earliest), max)

(* get_eth_transactions_async: one item per hash, the first seen. *)
RECURSIVE UniqueByHash(_, _)
UniqueByHash(transfers, seen_hashes) ==
    IF transfers = <<>> THEN <<>>
    ELSE LET t == Head(transfers)
         IN IF t.hash # "none" /\ t.hash \notin seen_hashes
            THEN <<t>> \o UniqueByHash(Tail(transfers), seen_hashes \cup {t.hash})
            ELSE UniqueByHash(Tail(transfers), seen_hashes)

(***************************************************************************)
(* State.                                                                  *)
(*   Batch run: chain, tier, entry, upstream (what the list call returned),*)
(*   signatures (the batch processor's input), max_transactions,           *)
(*   earliest_time, bpc (position of the run), offset (the loop's i),      *)
(*   batch_size (the loop's step),                                         *)
(*   tasks (the coroutines of the current sub-batch), semaphore (its free  *)
(*   permits), seen_transfers, transactions, batch_sleeps (inter-batch     *)
(*   delays taken), returned, response, done_event (the item whose         *)
(*   coroutine returned in the step just taken, with the attempts it made; *)
(*   a coroutine's locals are gone once it has returned, so a finished     *)
(*   task keeps its result only).                                          *)
(***************************************************************************)
VARIABLES chain, tier, entry, upstream, signatures, max_transactions, batch_size,
          earliest_time, bpc, offset, tasks, semaphore, seen_transfers, transactions, batch_sleeps,
          returned, response, done_event,
          wallet_query_logs, requests, arrived, solo, cache, last_response, done_request

batchVars == <<chain, tier, oracle, entry, upstream, signatures, max_transactions, batch_size,
               earliest_time,
               bpc, offset, tasks, semaphore, seen_transfers, transactions, batch_sleeps,
               returned, response, done_event>>

quotaVars == <<wallet_query_logs, requests, arrived, solo, cache, last_response,
               done_request>>

(* The price cache of one module: now (time.time(), in seconds since the
   process started), token_price_cache (_token_price_cache), lru_cache (what
   the functools.lru_cache wrapper of get_cached_token_price has memoised,
   least recently used first), price_call (the last call of
   get_cached_token_price: its argument, what it returned, whether
   get_token_price_usd_sync ran, and what _token_price_cache held for the
   symbol when the call was made). *)
VARIABLES now, token_price_cache, lru_cache, price_call

priceVars == <<now, token_price_cache, lru_cache, price_call>>

vars == <<batchVars, quotaVars, priceVars>>

NoPriceCall ==
    [symbol |-> "none", price |-> [text |-> "none", quoted_at |-> 0], looked_up |-> FALSE,
     before |-> "none", memoised |-> FALSE]

PriceIdle ==
    /\ now = 0
    /\ token_price_cache = <<>>
    /\ lru_cache = <<>>
    /\ price_call = NoPriceCall

Chains == {"solana", "ethereum"}

NewTask ==
    [st |-> "queued", attempt |-> 0, hist |-> <<>>, slept |-> 0, details |-> "pending",
     outcome |-> "pending", result |-> <<>>]

NoEvent == [k |-> 0, hist |-> <<>>, slept |-> 0, outcome |-> "none"]

DoneEvent(k, t, last, outcome) ==
    [k |-> k, hist |-> IF last = "" THEN t.hist ELSE Append(t.hist, last),
     slept |-> t.slept, outcome |-> outcome]

NoResponse ==
    [built |-> FALSE, error |-> FALSE, total_transactions |-> 0, nodes |-> <<>>,
     edges |-> <<>>, unique_addresses |-> 0, transaction_limited |-> FALSE,
     time_limited |-> FALSE]

(* The dictionary of get_wallet_graph_data's except branch: "error", empty
   graph_data, empty summary. *)
ErrorResponse == [NoResponse EXCEPT !.error = TRUE]

NoSeen ==
    [status |-> 0, wallet_address |-> "none", asked |-> "none", remaining |-> 0,
     alone |-> FALSE]

(* A request of POST /data/wallet before it arrives. *)
NewRequest ==
    [pc |-> "idle", wallet_address |-> "none", chain |-> "none", checked |-> FALSE,
     used |-> {}, exc |-> 0, graph |-> FALSE, from_cache |-> FALSE, status |-> 0,
     remaining |-> 0, alone |-> FALSE, prev |-> NoSeen, calls |-> <<>>,
     result |-> "none", endpoint |-> "wallet", served |-> <<>>]

InitBatch ==
    /\ chain \in Chains
    /\ tier \in Tiers
    /\ oracle = "up"
    /\ entry = "none"
    /\ upstream \in SeqsUpTo(CatalogueOf(chain), MaxSigs)
    /\ Len(upstream) <= 2 * fetch_limit(tier)
    /\ signatures = <<>>
    /\ max_transactions = 0
    /\ earliest_time = 0
    /\ bpc = "start"
    /\ offset = 0
    /\ batch_size = 0
    /\ tasks = <<>>
    /\ semaphore = 0
    /\ seen_transfers = {}
    /\ transactions = <<>>
    /\ batch_sleeps = 0
    /\ returned = <<>>
    /\ response = NoResponse
    /\ done_event = NoEvent
    /\ wallet_query_logs = {}
    /\ requests = EmptyBag
    /\ arrived = 0
    /\ solo = FALSE
    /\ cache = <<>>
    /\ last_response = NoSeen
    /\ done_request = NewRequest
    /\ PriceIdle

(* The entry of process_*_batch_async: empty output, a fresh semaphore of
   the given number of permits, the batch_size of the loop. *)
EnterBatchAt(sigs, permits, size) ==
    /\ signatures' = sigs
    /\ max_transactions' = get_subscription_limits(tier).max_transactions
    /\ earliest_time' = calculate_time_range(tier)
    /\ semaphore' = permits
    /\ batch_size' = size
    /\ bpc' = "loop"
    /\ done_event' = NoEvent
    /\ UNCHANGED <<quotaVars, priceVars>>
    /\ UNCHANGED <<chain, tier, upstream, offset, tasks, seen_transfers, transactions,
                   batch_sleeps, returned, response>>

EnterBatch(sigs) == EnterBatchAt(sigs, SemaphoreOf(chain), BatchSizeOf(chain))

(* The lists a run with a failing price oracle is followed over. *)
NoRepeat(items) == \A a, b \in 1..Len(items) : a # b => items[a] # items[b]

(* get_wallet_graph_data from its price prefetch, which finds the oracle up
   or down, to get_*_transactions_for_graph_async's call of the batch
   processor. *)
ForGraphAsync ==
    /\ bpc = "start"
    /\ entry' = "graph"
    /\ oracle' \in {"up"} \cup (IF NoRepeat(upstream) THEN {"down"} ELSE {})
    /\ EnterBatch(IF chain = "solana"
                  THEN FilterSignatures(upstream, calculate_time_range(tier),
                                        get_subscription_limits(tier).max_transactions)
                  ELSE UniqueByHash(upstream, {}))

(* The batch processor called on the list as it is. *)
BatchDirect ==
    /\ bpc = "start"
    /\ entry' = "batch"
    /\ UNCHANGED oracle
    /\ EnterBatch(upstream)

BatchItems == SubSeq(signatures, offset + 1, Min(offset + batch_size, Len(signatures)))

(* Top of the for loop: next sub-batch, tasks created by gather. *)
StartBatch ==
    /\ bpc = "loop"
    /\ offset < Len(signatures)
    /\ ~ReachedLimit(Len(transactions), max_transactions)
    /\ tasks' = [k \in 1..Len(BatchItems) |-> NewTask]
    /\ bpc' = "gather"
    /\ done_event' = NoEvent
    /\ UNCHANGED <<quotaVars, priceVars>>
    /\ UNCHANGED <<chain, tier, oracle, entry, upstream, signatures, max_transactions, batch_size,
                   earliest_time,
                   offset, semaphore, seen_transfers, transactions, batch_sleeps,
                   returned, response>>

(* Loop exhausted or broken out of: return transactions[:max_transactions]. *)
FinishBatch ==
    /\ bpc = "loop"
    /\ offset >= Len(signatures) \/ ReachedLimit(Len(transactions), max_transactions)
    /\ returned' = Truncate(transactions, max_transactions)
    /\ bpc' = "returned"
    /\ done_event' = NoEvent
    /\ UNCHANGED <<quotaVars, priceVars>>
    /\ UNCHANGED <<chain, tier, oracle, entry, upstream, signatures, max_transactions, batch_size,
                   earliest_time,
                   offset, tasks, semaphore, seen_transfers, transactions, batch_sleeps,
                   response>>

Item(k) == signatures[offset + k]

(* asyncio.Semaphore wakes its waiters first come first served, and the
   tasks of a gather reach the semaphore in list order. *)
Turn(k) ==
    /\ bpc = "gather"
    /\ k \in 1..Len(tasks)
    /\ tasks[k].st = "queued"
    /\ \A j \in 1..(k - 1) : tasks[j].st # "queued"
    /\ CanAcquire(semaphore)

TaskFrame ==
    UNCHANGED <<chain, tier, oracle, entry, upstream, signatures, max_transactions, batch_size,
                earliest_time,
                bpc, offset, transactions, batch_sleeps, returned, response>>

(* Task k's coroutine returns result; last is the outcome of the fetch that
   ended it ("" when none was in flight). *)
Finish(k, last, outcome, result) ==
    /\ tasks' = [tasks EXCEPT ![k] =
                    [NewTask EXCEPT !.st = "done", !.outcome = outcome, !.result = result]]
    /\ done_event' = DoneEvent(k, tasks[k], last, outcome)
    /\ UNCHANGED <<quotaVars, priceVars>>

Running(k, st) ==
    /\ bpc = "gather"
    /\ k \in 1..Len(tasks)
    /\ tasks[k].st = st

(* Solana: async with semaphore, then the block time checks, then the first fetch. *)
SolAcquire(k) ==
    /\ chain = "solana"
    /\ Turn(k)
    /\ IF Item(k).blockTime = 0 \/ BeforeEarliest(Item(k).blockTime, earliest_time)
       THEN /\ Finish(k, "", "skipped", <<>>)
            /\ UNCHANGED semaphore
       ELSE /\ tasks' = [tasks EXCEPT ![k].st = "fetching"]
            /\ semaphore' = semaphore - 1
            /\ done_event' = NoEvent
            /\ UNCHANGED <<quotaVars, priceVars>>
    /\ UNCHANGED seen_transfers
    /\ TaskFrame

(* get_solana_transaction_details_async returned a payload. *)
SolFetchData(k) ==
    /\ chain = "solana"
    /\ Running(k, "fetching")
    /\ LET p == SolProcess(Item(k), UserOf(chain), seen_transfers)
       IN /\ Finish(k, "data", "processed", p.records)
          /\ seen_transfers' = p.seen
    /\ semaphore' = semaphore + 1
    /\ TaskFrame

(* The fetch failed: kind "none" (None returned: API error, timeout, empty
   result) or "429" (the rate-limit exception).  Retried while attempts remain. *)
SolFetchFail(k, kind) ==
    /\ chain = "solana"
    /\ Running(k, "fetching")
    /\ Item(k).signature \in FlakySignatures
    /\ IF HasAttemptsLeft(tasks[k].attempt, MaxRetries)
       THEN /\ tasks' = [tasks EXCEPT ![k] =
                            [@ EXCEPT !.st = "sleeping", !.hist = Append(@, kind),
                                      !.slept = @ + (IF kind = "429"
                                                     THEN RateLimitBackoff(tasks[k].attempt)
                                                     ELSE EmptyResultBackoff(tasks[k].attempt))]]
            /\ done_event' = NoEvent
            /\ UNCHANGED <<quotaVars, priceVars>>
            /\ UNCHANGED semaphore
       ELSE /\ Finish(k, kind, "dropped", <<>>)
            /\ semaphore' = semaphore + 1
    /\ UNCHANGED seen_transfers
    /\ TaskFrame

SolFetchNone(k) == SolFetchFail(k, "none")

SolFetch429(k) == SolFetchFail(k, "429")

(* asyncio.sleep is over: the next attempt's fetch starts. *)
SolWake(k) ==
    /\ chain = "solana"
    /\ Running(k, "sleeping")
    /\ tasks' = [tasks EXCEPT ![k] = [@ EXCEPT !.st = "fetching", !.attempt = @ + 1]]
    /\ done_event' = NoEvent
    /\ UNCHANGED <<quotaVars, priceVars>>
    /\ UNCHANGED <<semaphore, seen_transfers>>
    /\ TaskFrame

(* Ethereum: async with semaphore, the hash/blockNum check, then
   get_transaction_details_async starts. *)
EthAcquire(k) ==
    /\ chain = "ethereum"
    /\ Turn(k)
    /\ IF Item(k).hash = "none" \/ Item(k).blockNum = 0
       THEN /\ Finish(k, "", "skipped", <<>>)
            /\ UNCHANGED semaphore
       ELSE /\ tasks' = [tasks EXCEPT ![k].st = "details"]
            /\ semaphore' = semaphore - 1
            /\ done_event' = NoEvent
            /\ UNCHANGED <<quotaVars, priceVars>>
    /\ UNCHANGED seen_transfers
    /\ TaskFrame

(* What eth_getTransactionByHash can come to: a result, a rate-limit
   response, another failure (JSON-RPC error, timeout, connection error). *)
EthReplies == {"result", "429", "error"}

(* get_transaction_details_async: the result, or None on any error; it
   raises nothing. *)
get_transaction_details_async(reply) == IF reply = "result" THEN "ok" ELSE "none"

(* The transactions whose detail call can fail.  The attempt loop reads
   nothing of the item before the call returns, so which hash fails makes no
   difference to it. *)
FlakyHashes == {"h2"}

(* get_transaction_details_async returned and get_transaction_receipt_async
   starts. *)
EthDetailsReturn(k, reply) ==
    /\ chain = "ethereum"
    /\ Running(k, "details")
    /\ reply # "result" => Item(k).hash \in FlakyHashes
    /\ tasks' = [tasks EXCEPT ![k] =
                    [@ EXCEPT !.st = "receipt", !.hist = Append(@, reply),
                              !.details = get_transaction_details_async(reply)]]
    /\ done_event' = NoEvent
    /\ UNCHANGED <<quotaVars, priceVars>>
    /\ UNCHANGED <<semaphore, seen_transfers>>
    /\ TaskFrame

(* get_transaction_receipt_async returned; the attempt loop breaks, and the
   rest of the coroutine runs without awaiting.  drift is how far the clock
   has moved since the request computed earliest_time (read only when the
   timestamp is estimated). *)
EthReceiptReturn(k, drift) ==
    /\ chain = "ethereum"
    /\ Running(k, "receipt")
    /\ Item(k).tsKind = "iso" => drift = 0
    /\ LET tx_datetime == EthTxDatetime(Item(k), RequestTime + drift)
           p == EthProcess(Item(k), UserOf(chain), tx_datetime, seen_transfers)
       IN IF tasks[k].details # "ok"
          THEN /\ Finish(k, "", "dropped", <<>>)
               /\ UNCHANGED seen_transfers
          ELSE IF BeforeEarliest(tx_datetime, earliest_time)
          THEN /\ Finish(k, "", "skipped", <<>>)
               /\ UNCHANGED seen_transfers
          ELSE /\ Finish(k, "", IF p.records = <<>> THEN "duplicate" ELSE "processed",
                         p.records)
               /\ seen_transfers' = p.seen
    /\ semaphore' = semaphore + 1
    /\ TaskFrame

GatherResultsReversed(ts) ==
    Flatten([k \in 1..Len(ts) |-> ts[Len(ts) + 1 - k].result])

(* What the fold after asyncio.gather goes through: gather returns the
   results in the order of the tasks it was given, whichever finished
   first. *)
GatherResults(ts) ==
    Flatten([k \in 1..Len(ts) |-> ts[k].result])

(* asyncio.sleep between two sub-batches, in tenths of a second. *)
SolBatchDelay == 5
EthBatchDelay == 3
InterBatchDelay(c) == IF c = "solana" THEN SolBatchDelay ELSE EthBatchDelay

(* A wait that ends with the first task to finish. *)
GatherFirstCompleted(ts) == \E k \in 1..Len(ts) : ts[k].st = "done"

(* await asyncio.gather over the tasks, return_exceptions=True: resumes
   when every task has returned or raised. *)
GatherDone(ts) == \A k \in 1..Len(ts) : ts[k].st = "done"

(* gather returned: the results are folded in task order. *)
Collect ==
    /\ bpc = "gather"
    /\ GatherDone(tasks)
    /\ LET results == GatherResults(tasks)
           got == AppendUntilLimit(transactions, results, max_transactions)
       IN /\ transactions' = got.transactions
          /\ IF got.hit
             THEN /\ returned' = Truncate(got.transactions, max_transactions)
                  /\ bpc' = "returned"
                  /\ UNCHANGED <<offset, batch_sleeps>>
             ELSE /\ offset' = offset + batch_size
                  /\ batch_sleeps' = batch_sleeps
                                       + (IF offset + batch_size < Len(signatures)
                                          THEN InterBatchDelay(chain) ELSE 0)
                  /\ bpc' = "loop"
                  /\ UNCHANGED returned
    /\ tasks' = <<>>
    /\ done_event' = NoEvent
    /\ UNCHANGED <<quotaVars, priceVars>>
    /\ UNCHANGED <<chain, tier, oracle, entry, upstream, signatures, max_transactions, batch_size,
                   earliest_time,
                   semaphore, seen_transfers, response>>

(***************************************************************************)
(* Graph Assembler: get_wallet_graph_data after its gather.                *)
(***************************************************************************)
MainNodeId(c) == IF c = "ethereum" THEN Lower(UserOf(c)) ELSE UserOf(c)

NodeMissingAlways(address, seen_addresses) == TRUE

(* if source not in seen_addresses *)
NodeMissing(address, seen_addresses) == address \notin seen_addresses

(* The loop over the transactions: a node for the source, then one for the
   destination, each unless its address has been seen.  nodes is the dict
   in insertion order. *)
RECURSIVE AddNodes(_, _, _)
AddNodes(txs, nodes, seen_addresses) ==
    IF txs = <<>> THEN nodes
    ELSE LET source == Head(txs).source
             destination == Head(txs).destination
             with_source == IF NodeMissing(source, seen_addresses)
                            THEN Append(nodes, [id |-> source, type |-> "external_wallet"])
                            ELSE nodes
             seen_source == seen_addresses \cup {source}
             with_both == IF NodeMissing(destination, seen_source)
                          THEN Append(with_source,
                                      [id |-> destination, type |-> "external_wallet"])
                          ELSE with_source
         IN AddNodes(Tail(txs), with_both, seen_source \cup {destination})

GraphNodes(c, txs) ==
    AddNodes(txs, <<[id |-> MainNodeId(c), type |-> "main_wallet"]>>, {MainNodeId(c)})

GraphEdges(txs) ==
    [k \in 1..Len(txs) |->
        [source |-> txs[k].source, destination |-> txs[k].destination,
         transaction_hash |-> txs[k].hash, timestamp |-> txs[k].timestamp,
         amount |-> txs[k].amount, token |-> txs[k].token,
         direction |-> txs[k].direction, usd_equivalent |-> txs[k].usd_equivalent,
         weight |-> txs[k].amount]]

TransactionLimitedStrict(n, limits) == n > limits.max_transactions

TransactionLimited(n, limits) == n = limits.max_transactions

Assemble ==
    /\ bpc = "returned"
    /\ entry = "graph"
    /\ response' = [built |-> TRUE,
                    error |-> FALSE,
                    total_transactions |-> Len(returned),
                    nodes |-> GraphNodes(chain, returned),
                    edges |-> GraphEdges(returned),
                    unique_addresses |-> Len(GraphNodes(chain, returned)) - 1,
                    transaction_limited |->
                        TransactionLimited(Len(returned), get_subscription_limits(tier)),
                    time_limited |-> Len(returned) > 0]
    /\ bpc' = "done"
    /\ done_event' = NoEvent
    /\ UNCHANGED <<quotaVars, priceVars>>
    /\ UNCHANGED <<chain, tier, oracle, entry, upstream, signatures, max_transactions, batch_size,
                   earliest_time,
                   offset, tasks, semaphore, seen_transfers, transactions, batch_sleeps,
                   returned>>

(* An exception inside the try of get_wallet_graph_data, here at its
   first statements (the executor of the price prefetch cannot start its
   thread): the except branch answers. *)
GraphFails ==
    /\ bpc = "start"
    /\ entry' = "failed"
    /\ response' = ErrorResponse
    /\ bpc' = "done"
    /\ done_event' = NoEvent
    /\ UNCHANGED <<quotaVars, priceVars>>
    /\ UNCHANGED <<chain, tier, oracle, upstream, signatures, max_transactions, batch_size,
                   earliest_time, offset, tasks, semaphore, seen_transfers, transactions,
                   batch_sleeps, returned>>

NextBatch ==
    \/ ForGraphAsync
    \/ GraphFails
    \/ BatchDirect
    \/ StartBatch
    \/ FinishBatch
    \/ \E k \in 1..Max(SolBatchSize, EthBatchSize) :
          \/ SolAcquire(k)
          \/ SolFetchData(k)
          \/ SolFetchNone(k)
          \/ SolFetch429(k)
          \/ SolWake(k)
          \/ EthAcquire(k)
          \/ \E reply \in EthReplies : EthDetailsReturn(k, reply)
          \/ \E drift \in {0, MaxClockDrift} : EthReceiptReturn(k, drift)
    \/ Collect
    \/ Assemble

SpecBatch == InitBatch /\ [][NextBatch]_vars

(* The run under an event loop that keeps running what is ready and an
   upstream whose every call comes back (with a result, an error or its
   timeout): a step that can be taken is taken in the end. *)
FairBatch == SpecBatch /\ WF_vars(NextBatch)

(***************************************************************************)
(* Quota Ledger and Result Cache: POST /data/wallet for one authenticated  *)
(* user within one UTC day.  A request is a coroutine; every await of the  *)
(* handler (redis get, distinct, insert_one, the aggregation, redis set)   *)
(* is a point where the other requests may run.  wallet_query_logs holds   *)
(* the day's documents of the user as a set: distinct() cannot tell two    *)
(* equal documents apart.  The aggregation is the batch machine above and  *)
(* is opaque here; its result is told apart only by its rate_limit_info.   *)
(***************************************************************************)
Inputs ==
    { [wallet_address |-> "0xAA", chain |-> "ethereum"],
      [wallet_address |-> "0xaa", chain |-> "ethereum"],
      [wallet_address |-> " 0xBB", chain |-> "ethereum"],
      [wallet_address |-> "SoLA", chain |-> "solana"],
      [wallet_address |-> "bad", chain |-> "solana"] }

is_valid_ethereum_address(address) == address \in {"0xAA", "0xaa", "0xBB", "0xbb"}

(* base58 is case-sensitive: SoLA and SOLa are two addresses. *)
is_valid_solana_address(address) == address \in {"SoLA", "SoLB", "SOLa"}

ChainOfAddress(address) == IF is_valid_solana_address(address) THEN "solana" ELSE "ethereum"

(* A redis key is a text; the model keeps it as the sequence of its parts
   between colons.  Split gives the parts of an address text. *)
Split(address) ==
    IF address = "u1:free:solana:SoLA" THEN <<"u1", "free", "solana", "SoLA">>
    ELSE <<address>>

CacheKey(t, c, address) == <<"wallet_cache", "u1", t, c>> \o Split(address)

(* f"wallet_cache:{address}" of the two GET /simple endpoints. *)
SimpleCacheKey(address) == <<"wallet_cache">> \o Split(address)

(* The tier get_wallet_graph_data falls back to when called without one. *)
DefaultTier(c) == IF c = "solana" THEN "free" ELSE "pro"

(* Who a request is made by and what it asks for: (user, tier, chain,
   address).  The GET /simple endpoints take no user. *)
RequestTuple(req) ==
    IF req.endpoint = "wallet" THEN <<"u1", tier, req.chain, req.wallet_address>>
    ELSE <<"none", DefaultTier(req.chain), req.chain, req.wallet_address>>

(* The tier names a user document can hold: subscription_tier is a free
   string, "gold" stands for one that is neither "free" nor "pro". *)
TierNames == Tiers \cup {"gold"}

(* What is stored under a cache key: the response (told apart by its
   rate_limit_info and by its kind: "graph" for the dictionary of
   get_wallet_graph_data, "error" for the engine's {"error": ...}). *)
CacheEntry(req) ==
    [remaining |-> req.remaining, result |-> req.result, stored |-> RequestTuple(req)]

CacheSet(key, req) ==
    [k \in DOMAIN cache \cup {key} |-> IF k = key THEN CacheEntry(req) ELSE cache[k]]

from_query_raw(wallet_address, t, c) ==
    [wallet_address |-> wallet_address, tier |-> t, chain |-> Lower(c)]

from_query(wallet_address, t, c) ==
    [wallet_address |-> Lower(wallet_address), tier |-> t, chain |-> Lower(c)]

(* distinct("wallet_address", {userId, tier, created_at within the day}) *)
used_addresses(t) == {d.wallet_address : d \in {l \in wallet_query_logs : l.tier = t}}

IsNew(wallet_address, used) == Lower(wallet_address) \notin used

QuotaExceededStrict(wallet_address, used, limit) ==
    IsNew(wallet_address, used) /\ Cardinality(used) > limit

QuotaExceededNever(wallet_address, used, limit) == FALSE

QuotaExceeded(wallet_address, used, limit) ==
    IsNew(wallet_address, used) /\ Cardinality(used) >= limit

(* The literal 5 / 50 of rate_limit_info, scaled with the daily limits. *)
RemainingBase(t) == IF Lower(t) = "free" THEN DailyLimitFree ELSE DailyLimitPro

RemainingUncounted(wallet_address, used, t) ==
    Max(0, RemainingBase(t) - Cardinality(used))

Remaining(wallet_address, used, t) ==
    Max(0, RemainingBase(t) - Cardinality(used)
             - (IF IsNew(wallet_address, used) THEN 1 ELSE 0))

(* except Exception as e: raise HTTPException(status_code=500, ...) *)
RouteExcept(exc) == [status_code |-> 500, detail |-> exc]

(* An address as its chain tells addresses apart: hex addresses of
   Ethereum without regard to case, base-58 addresses of Solana letter by
   letter. *)
ChainAddress(c, address) == IF c = "ethereum" THEN Lower(address) ELSE address

(* What a later request can have seen of an earlier response. *)
Seen(req) ==
    [status |-> req.status, wallet_address |-> Lower(req.wallet_address),
     asked |-> ChainAddress(req.chain, req.wallet_address),
     remaining |-> req.remaining, alone |-> req.alone]

(* The handler returns or raises after the engine was called: the response
   leaves and the coroutine's locals are gone.  done_request shows the
   finished request for one step.  solo says that the one request in the
   engine has been the only one there since it entered; last_response keeps
   what the last such request was answered when that was a 200. *)
Respond(rest, req, alone) ==
    LET done == [req EXCEPT !.pc = "done", !.alone = alone,
                            !.prev = IF alone THEN last_response ELSE NoSeen]
    IN /\ requests' = rest
       /\ solo' = (solo /\ rest # EmptyBag)
       /\ done_request' = done
       /\ last_response' = IF alone /\ done.status = 200 THEN Seen(done) ELSE NoSeen

(* The handler returns or raises before the engine is called. *)
Reply(req) ==
    /\ done_request' = [req EXCEPT !.pc = "done"]
    /\ UNCHANGED <<requests, solo, last_response>>

Continue(req, next) ==
    /\ requests' = (requests (-) SetToBag({req})) (+) SetToBag({next})
    /\ UNCHANGED <<arrived, solo, last_response>>
    /\ done_request' = NewRequest

(* A cache hit answered with the user's quota as it is now. *)
CacheHitRefreshed(req, key) ==
    [req EXCEPT !.status = 200, !.from_cache = TRUE,
                !.remaining = Remaining(req.wallet_address, used_addresses(Lower(tier)), tier),
                !.result = cache[key].result,
                !.served = cache[key].stored]

(* return json.loads(cached_data): the response is what was stored. *)
CacheHit(req, key) ==
    [req EXCEPT !.status = 200, !.from_cache = TRUE,
                !.remaining = cache[key].remaining,
                !.result = cache[key].result,
                !.served = cache[key].stored]

QuotaFrame == UNCHANGED <<batchVars, priceVars>>

InitQuota ==
    /\ chain = "none"
    /\ tier \in TierNames
    /\ oracle = "up"
    /\ entry = "none"
    /\ upstream = <<>>
    /\ signatures = <<>>
    /\ max_transactions = 0
    /\ earliest_time = 0
    /\ bpc = "start"
    /\ offset = 0
    /\ batch_size = 0
    /\ tasks = <<>>
    /\ semaphore = 0
    /\ seen_transfers = {}
    /\ transactions = <<>>
    /\ batch_sleeps = 0
    /\ returned = <<>>
    /\ response = NoResponse
    /\ done_event = NoEvent
    /\ \E used \in SUBSET {"0xaa", "0xbb", "sola"} :
          /\ Cardinality(used) <= get_subscription_limits(tier).daily_address_limit
          /\ tier \notin Tiers => used = {}
          /\ wallet_query_logs = {from_query(a, tier, ChainOfAddress(a)) : a \in used}
    /\ requests = EmptyBag
    /\ arrived = 0
    /\ solo = FALSE
    /\ cache = <<>>
    /\ last_response = NoSeen
    /\ done_request = NewRequest
    /\ PriceIdle

(* fetch_wallet_data from the request body to the engine's distinct(): the
   redis get (a hit is returned as it is), the validator, the engine's
   entry and its tier check (a tier that is neither "free" nor "pro" gets
   the engine's error dictionary, which the route stores and returns).  The
   ledger is not touched on the way, so the awaits of redis are not steps of
   their own.  MaxRequests requests arrive in all. *)
Arrive(body) ==
    /\ arrived < MaxRequests
    /\ arrived' = arrived + 1
    /\ LET req == [NewRequest EXCEPT !.wallet_address = Strip(body.wallet_address),
                                     !.chain = Lower(body.chain),
                                     !.calls = <<"redis_get">>]
           key == CacheKey(tier, req.chain, req.wallet_address)
           valid == IF req.chain = "ethereum"
                    THEN is_valid_ethereum_address(req.wallet_address)
                    ELSE is_valid_solana_address(req.wallet_address)
           refused == [req EXCEPT !.status = 200, !.result = "error",
                                  !.calls = Append(@, "redis_set")]
       IN IF key \in DOMAIN cache
          THEN /\ Reply(CacheHit(req, key))
               /\ UNCHANGED cache
          ELSE IF ~valid
          THEN /\ Reply([req EXCEPT !.exc = 400, !.status = RouteExcept(400).status_code])
               /\ UNCHANGED cache
          ELSE IF Lower(tier) \notin Tiers
          THEN /\ Reply(refused)
               /\ cache' = CacheSet(key, refused)
          ELSE /\ requests' = requests (+) SetToBag({[req EXCEPT !.pc = "distinct"]})
               /\ solo' = (requests = EmptyBag)
               /\ UNCHANGED <<last_response, cache>>
               /\ done_request' = NewRequest
    /\ UNCHANGED wallet_query_logs
    /\ QuotaFrame

(* The check made after the query was logged. *)
DistinctLogsFirst(old) ==
    /\ old.pc = "distinct"
    /\ wallet_query_logs' = wallet_query_logs \cup
           {from_query(old.wallet_address, tier, old.chain)}
    /\ LET used == used_addresses(Lower(tier))
           req == [old EXCEPT !.checked = TRUE, !.used = used,
                              !.calls = Append(@, "distinct")]
           limit == SUBSCRIPTION_LIMITS[Lower(tier)].daily_address_limit
       IN IF QuotaExceeded(req.wallet_address, used, limit)
          THEN Respond(requests (-) SetToBag({old}),
                       [req EXCEPT !.exc = 403, !.status = RouteExcept(403).status_code],
                       solo)
          ELSE Continue(old, [req EXCEPT !.pc = "insert_one"])
    /\ UNCHANGED <<cache, arrived>>
    /\ QuotaFrame

(* distinct() returns and the limit is checked. *)
Distinct(old) ==
    /\ old.pc = "distinct"
    /\ LET used == used_addresses(Lower(tier))
           req == [old EXCEPT !.checked = TRUE, !.used = used,
                              !.calls = Append(@, "distinct")]
           limit == SUBSCRIPTION_LIMITS[Lower(tier)].daily_address_limit
       IN IF QuotaExceeded(req.wallet_address, used, limit)
          THEN Respond(requests (-) SetToBag({old}),
                       [req EXCEPT !.exc = 403, !.status = RouteExcept(403).status_code],
                       solo)
          ELSE Continue(old, [req EXCEPT !.pc = "insert_one"])
    /\ UNCHANGED <<wallet_query_logs, cache, arrived>>
    /\ QuotaFrame

InsertOne(old) ==
    /\ old.pc = "insert_one"
    /\ wallet_query_logs' = wallet_query_logs \cup
           {from_query(old.wallet_address, tier, old.chain)}
    /\ Continue(old, [old EXCEPT !.pc = "graph", !.calls = Append(@, "insert_one")])
    /\ UNCHANGED cache
    /\ QuotaFrame

(* What get_wallet_graph_data returns: the graph dictionary, or the
   dictionary of its except branch ("error", empty nodes and edges). *)
EngineResults == {"graph", "error"}

(* get_wallet_graph_data returns (it catches its own exceptions and reads
   neither the ledger nor the cache), the engine attaches rate_limit_info,
   the route stores the result under the cache key and returns it. *)
ReturnDataOf(old, result) ==
    /\ old.pc = "graph"
    /\ LET req == [old EXCEPT !.graph = TRUE, !.status = 200, !.result = result,
                       !.remaining = Remaining(old.wallet_address, old.used, tier),
                       !.calls = @ \o <<"get_wallet_graph_data", "redis_set">>]
           key == CacheKey(tier, req.chain, req.wallet_address)
       IN /\ cache' = CacheSet(key, req)
          /\ Respond(requests (-) SetToBag({old}), req, solo)
    /\ UNCHANGED <<wallet_query_logs, arrived>>
    /\ QuotaFrame

(* The aggregation succeeds. *)
ReturnData(old) == ReturnDataOf(old, "graph")

(* The ttl of a cache entry runs out. *)
Expire(key) ==
    /\ key \in DOMAIN cache
    /\ cache' = [k \in DOMAIN cache \ {key} |-> cache[k]]
    /\ UNCHANGED <<wallet_query_logs, requests, arrived, solo, last_response>>
    /\ done_request' = NewRequest
    /\ QuotaFrame

NextQuota ==
    \/ \E body \in Inputs : Arrive(body)
    \/ \E req \in BagToSet(requests) :
          \/ Distinct(req)
          \/ InsertOne(req)
          \/ ReturnData(req)
    \/ \E key \in DOMAIN cache : Expire(key)

SpecQuota == InitQuota /\ [][NextQuota]_vars

(***************************************************************************)
(* The same requests made one after the other: a request arrives only when *)
(* the one before it has been answered.  The aggregation of a request can  *)
(* fail here (an exception inside get_wallet_graph_data).                  *)
(***************************************************************************)
SeqInputs == Inputs \cup {[wallet_address |-> "SOLa", chain |-> "solana"]}

ArriveNext(body) ==
    /\ requests = EmptyBag
    /\ Arrive(body)

NextSeq ==
    \/ \E body \in SeqInputs : ArriveNext(body)
    \/ \E req \in BagToSet(requests) :
          \/ Distinct(req)
          \/ InsertOne(req)
          \/ \E result \in EngineResults : ReturnDataOf(req, result)
    \/ \E key \in DOMAIN cache : Expire(key)

SpecSeq == InitQuota /\ [][NextSeq]_vars

(***************************************************************************)
(* GET /data/simple/solana and GET /data/simple/ethereum: no user, no      *)
(* quota, no validation; the result cache is the one of POST /data/wallet. *)
(* The cache starts empty or with what a POST of user u1 has stored.       *)
(***************************************************************************)
SimpleInputs ==
    { [address |-> "SoLA", chain |-> "solana"],
      [address |-> "SoLA", chain |-> "ethereum"],
      [address |-> "0xAA", chain |-> "ethereum"],
      [address |-> " 0xBB", chain |-> "ethereum"],
      [address |-> "u1:free:solana:SoLA", chain |-> "solana"] }

StoredByWallet ==
    [NewRequest EXCEPT !.wallet_address = "SoLA", !.chain = "solana", !.status = 200,
                       !.result = "graph", !.graph = TRUE]

InitSimple ==
    /\ chain = "none"
    /\ tier = "free"
    /\ oracle = "up"
    /\ entry = "none"
    /\ upstream = <<>>
    /\ signatures = <<>>
    /\ max_transactions = 0
    /\ earliest_time = 0
    /\ bpc = "start"
    /\ offset = 0
    /\ batch_size = 0
    /\ tasks = <<>>
    /\ semaphore = 0
    /\ seen_transfers = {}
    /\ transactions = <<>>
    /\ batch_sleeps = 0
    /\ returned = <<>>
    /\ response = NoResponse
    /\ done_event = NoEvent
    /\ wallet_query_logs = {}
    /\ requests = EmptyBag
    /\ arrived = 0
    /\ solo = FALSE
    /\ cache \in {<<>>,
                  [k \in {CacheKey("free", "solana", "SoLA")} |-> CacheEntry(StoredByWallet)]}
    /\ last_response = NoSeen
    /\ done_request = NewRequest
    /\ PriceIdle

(* fetch_*_wallet_simple up to its engine call: strip, redis get. *)
SimpleArrive(query) ==
    /\ arrived < MaxRequests
    /\ arrived' = arrived + 1
    /\ LET req == [NewRequest EXCEPT !.endpoint = "simple",
                                     !.wallet_address = Strip(query.address),
                                     !.chain = query.chain,
                                     !.calls = <<"redis_get">>]
           key == SimpleCacheKey(req.wallet_address)
       IN IF key \in DOMAIN cache
          THEN Reply(CacheHit(req, key))
          ELSE /\ requests' = requests (+) SetToBag({[req EXCEPT !.pc = "graph"]})
               /\ done_request' = NewRequest
               /\ UNCHANGED <<solo, last_response>>
    /\ UNCHANGED <<wallet_query_logs, cache>>
    /\ QuotaFrame

(* analyze_*_wallet_endpoint2 returns get_wallet_graph_data(address); the
   route stores it under the key and returns it. *)
SimpleReturn(old) ==
    /\ old.pc = "graph"
    /\ old.endpoint = "simple"
    /\ LET req == [old EXCEPT !.pc = "done", !.graph = TRUE, !.status = 200,
                              !.result = "graph",
                              !.calls = @ \o <<"get_wallet_graph_data", "redis_set">>]
       IN /\ cache' = CacheSet(SimpleCacheKey(req.wallet_address), req)
          /\ requests' = requests (-) SetToBag({old})
          /\ done_request' = req
    /\ UNCHANGED <<wallet_query_logs, arrived, solo, last_response>>
    /\ QuotaFrame

NextSimple ==
    \/ \E query \in SimpleInputs : SimpleArrive(query)
    \/ \E req \in BagToSet(requests) : SimpleReturn(req)
    \/ \E key \in DOMAIN cache : Expire(key)

SpecSimple == InitSimple /\ [][NextSimple]_vars

(***************************************************************************)
(* The batch processor at the wider scale: WideSemaphore workers and       *)
(* sub-batches of WideBatchSize, called on lists whose detail fetches all  *)
(* succeed, so that every difference between two runs over one list is a   *)
(* difference of scheduling.                                               *)
(***************************************************************************)
ReliableItems(c) ==
    IF c = "solana" THEN {it \in SolSignatures : it.signature \notin FlakySignatures}
    ELSE {it \in EthTransfers : it.hash \notin FlakyHashes}

InitSched ==
    /\ chain \in Chains
    /\ tier \in Tiers
    /\ oracle = "up"
    /\ entry = "none"
    /\ upstream \in SeqsUpTo(ReliableItems(chain), MaxSigs)
    /\ signatures = <<>>
    /\ max_transactions = 0
    /\ earliest_time = 0
    /\ bpc = "start"
    /\ offset = 0
    /\ batch_size = 0
    /\ tasks = <<>>
    /\ semaphore = 0
    /\ seen_transfers = {}
    /\ transactions = <<>>
    /\ batch_sleeps = 0
    /\ returned = <<>>
    /\ response = NoResponse
    /\ done_event = NoEvent
    /\ wallet_query_logs = {}
    /\ requests = EmptyBag
    /\ arrived = 0
    /\ solo = FALSE
    /\ cache = <<>>
    /\ last_response = NoSeen
    /\ done_request = NewRequest
    /\ PriceIdle

(* The batch processor called on the list as it is. *)
BatchWide ==
    /\ bpc = "start"
    /\ entry' = "batch"
    /\ UNCHANGED oracle
    /\ EnterBatchAt(upstream, WideSemaphore, WideBatchSize)

NextSched ==
    \/ BatchWide
    \/ StartBatch
    \/ FinishBatch
    \/ \E k \in 1..WideBatchSize :
          \/ SolAcquire(k)
          \/ SolFetchData(k)
          \/ EthAcquire(k)
          \/ EthDetailsReturn(k, "result")
          \/ \E drift \in {0, MaxClockDrift} : EthReceiptReturn(k, drift)
    \/ Collect

SpecSched == InitSched /\ [][NextSched]_vars

(***************************************************************************)
(* Price Oracle Cache over time: get_cached_token_price under its          *)
(* functools.lru_cache decorator, get_token_price_usd_sync and             *)
(* prefetch_prices of one module (chain tells which).  The oracle's quote  *)
(* moves with time: the quote given at second t is told apart from every   *)
(* other by quoted_at; a default price is the same whenever it is given.   *)
(***************************************************************************)
PriceAt(text, t) == [text |-> text, quoted_at |-> IF text = MarketPrice THEN t ELSE 0]

(* The symbols the calls are made with: the mapped ones and one that
   symbol_map does not hold. *)
PriceSymbols(c) == DOMAIN symbol_map(c) \cup {"TOKEN_"}

(* symbols_to_fetch of get_wallet_graph_data. *)
symbols_to_fetch(c) == DOMAIN symbol_map(c)

(* The clock is followed in steps around the lifetime of an entry: one
   second short of it, and exactly it. *)
ClockSteps == {PRICE_CACHE_TTL - 1, PRICE_CACHE_TTL}

IsFresh(cache_entry, current_time) == current_time - cache_entry.timestamp < PRICE_CACHE_TTL

(* What _token_price_cache holds for the symbol at current_time. *)
EntryState(symbol, current_time) ==
    IF symbol \notin DOMAIN token_price_cache THEN "missing"
    ELSE IF IsFresh(token_price_cache[symbol], current_time) THEN "fresh"
    ELSE "stale"

CachePut(symbol, price, timestamp) ==
    [s \in DOMAIN token_price_cache \cup {symbol} |->
        IF s = symbol THEN [price |-> price, timestamp |-> timestamp]
        ELSE token_price_cache[s]]

Memoised(symbol) == \E k \in 1..Len(lru_cache) : lru_cache[k].symbol = symbol

MemoisedPrice(symbol) ==
    lru_cache[CHOOSE k \in 1..Len(lru_cache) : lru_cache[k].symbol = symbol].price

(* The wrapper's bookkeeping: the entry becomes the most recently used one,
   and the least recently used one leaves when maxsize is exceeded. *)
LruTouch(symbol, price) ==
    LET others == SelectSeq(lru_cache, LAMBDA e : e.symbol # symbol)
        all == Append(others, [symbol |-> symbol, price |-> price])
    IN IF Len(all) > LruMaxSize THEN Tail(all) ELSE all

InitPrice ==
    /\ chain \in Chains
    /\ tier = "free"
    /\ oracle = "up"
    /\ entry = "none"
    /\ upstream = <<>>
    /\ signatures = <<>>
    /\ max_transactions = 0
    /\ earliest_time = 0
    /\ bpc = "start"
    /\ offset = 0
    /\ batch_size = 0
    /\ tasks = <<>>
    /\ semaphore = 0
    /\ seen_transfers = {}
    /\ transactions = <<>>
    /\ batch_sleeps = 0
    /\ returned = <<>>
    /\ response = NoResponse
    /\ done_event = NoEvent
    /\ wallet_query_logs = {}
    /\ requests = EmptyBag
    /\ arrived = 0
    /\ solo = FALSE
    /\ cache = <<>>
    /\ last_response = NoSeen
    /\ done_request = NewRequest
    /\ PriceIdle

PriceFrame == UNCHANGED <<batchVars, quotaVars>>

(* The clock moves on. *)
Tick(d) ==
    /\ now + d <= MaxClock
    /\ now' = now + d
    /\ price_call' = NoPriceCall
    /\ UNCHANGED <<token_price_cache, lru_cache>>
    /\ PriceFrame

(* One call of get_cached_token_price(symbol).  The wrapper answers a
   memoised argument without running the function; otherwise the function
   runs (reply is what the oracle answers if it is asked) and its value is
   memoised. *)
CachedTokenPriceCall(symbol, reply) ==
    LET before == EntryState(symbol, now)
    IN /\ IF Memoised(symbol)
          THEN /\ price_call' = [symbol |-> symbol, price |-> MemoisedPrice(symbol),
                                 looked_up |-> FALSE, before |-> before,
                                 memoised |-> TRUE]
               /\ lru_cache' = LruTouch(symbol, MemoisedPrice(symbol))
               /\ UNCHANGED token_price_cache
          ELSE IF before = "fresh"
          THEN /\ price_call' = [symbol |-> symbol, price |-> token_price_cache[symbol].price,
                                 looked_up |-> FALSE, before |-> before,
                                 memoised |-> FALSE]
               /\ lru_cache' = LruTouch(symbol, token_price_cache[symbol].price)
               /\ UNCHANGED token_price_cache
          ELSE LET price == PriceAt(get_token_price_usd_sync(chain, symbol, reply), now)
               IN /\ price_call' = [symbol |-> symbol, price |-> price,
                                    looked_up |-> TRUE, before |-> before,
                                    memoised |-> FALSE]
                  /\ token_price_cache' = CachePut(symbol, price, now)
                  /\ lru_cache' = LruTouch(symbol, price)
       /\ UNCHANGED now
       /\ PriceFrame

(* prefetch_prices(symbols_to_fetch): one bulk call; on a quote every
   mapped symbol gets a new entry, otherwise nothing changes. *)
PrefetchPrices(reply) ==
    /\ token_price_cache' =
          IF reply = "usd"
          THEN [s \in DOMAIN token_price_cache \cup symbols_to_fetch(chain) |->
                   IF s \in symbols_to_fetch(chain)
                   THEN [price |-> PriceAt(MarketPrice, now), timestamp |-> now]
                   ELSE token_price_cache[s]]
          ELSE token_price_cache
    /\ price_call' = NoPriceCall
    /\ UNCHANGED <<now, lru_cache>>
    /\ PriceFrame

NextPrice ==
    \/ \E d \in ClockSteps : Tick(d)
    \/ \E symbol \in PriceSymbols(chain) : \E reply \in OracleReplies :
          CachedTokenPriceCall(symbol, reply)
    \/ \E reply \in OracleReplies : PrefetchPrices(reply)

SpecPrice == InitPrice /\ [][NextPrice]_vars

(***************************************************************************)
(* Claims about the batch processor and the assembled graph (SpecBatch).   *)
(***************************************************************************)
TierLimits == SUBSCRIPTION_LIMITS[tier]

BatchReturned == bpc \in {"returned", "done"}

InRange(t) == t >= RequestTime - TierLimits.time_range_days * SecondsPerDay

InFlight == Cardinality({k \in 1..Len(tasks) : tasks[k].st \in {"fetching", "details", "receipt"}})

(* The transfers the in-range items of the upstream list hold, each
   TransferKey once: what a run without failures and without a ceiling
   would return. *)
RECURSIVE EligibleRecords(_, _)
EligibleRecords(items, seen) ==
    IF items = <<>> THEN <<>>
    ELSE LET it == Head(items)
             p == IF chain = "solana"
                  THEN IF it.blockTime # 0 /\ InRange(it.blockTime)
                       THEN SolProcess(it, UserOf(chain), seen)
                       ELSE [records |-> <<>>, seen |-> seen]
                  ELSE IF it.hash # "none" /\ it.blockNum # 0
                          /\ InRange(EthTxDatetime(it, RequestTime))
                       THEN EthProcess(it, UserOf(chain), EthTxDatetime(it, RequestTime), seen)
                       ELSE [records |-> <<>>, seen |-> seen]
         IN p.records \o EligibleRecords(Tail(items), p.seen)

EligibleCount == Len(EligibleRecords(upstream, {}))

(* C1: for every tier, input list and pattern of upstream outcomes the
   batch processor returns at most the tier's max_transactions transfers,
   and the assembled graph has at most that many edges. *)
C1_AtMostMaxTransactions ==
    /\ BatchReturned => Len(returned) <= TierLimits.max_transactions
    /\ response.built => Len(response.edges) <= TierLimits.max_transactions

(* A run cut at the ceiling while input items were still unprocessed. *)
C1_Witness ==
    /\ response.built
    /\ Len(response.edges) = TierLimits.max_transactions
    /\ Len(transactions) = TierLimits.max_transactions
    /\ offset + BatchSizeOf(chain) < Len(signatures)

(* C2: transaction_limited is true exactly when max_transactions transfers
   were returned and the eligible set was strictly larger. *)
C2_TransactionLimitedIffTruncated ==
    response.built =>
        (response.transaction_limited <=>
            (Len(returned) = TierLimits.max_transactions
               /\ EligibleCount > TierLimits.max_transactions))

(* C3: no returned transfer is older than the request time minus the
   tier's time_range_days. *)
C3_NoTransferBeforeEarliest ==
    /\ \A k \in 1..Len(transactions) : InRange(transactions[k].timestamp)
    /\ BatchReturned => \A k \in 1..Len(returned) : InRange(returned[k].timestamp)
    /\ response.built =>
          \A k \in 1..Len(response.edges) : InRange(response.edges[k].timestamp)

(* A finished run over an input holding an item older than the window,
   with something returned. *)
C3_Witness ==
    /\ BatchReturned
    /\ returned # <<>>
    /\ \E k \in 1..Len(signatures) :
          IF chain = "solana"
          THEN signatures[k].blockTime # 0 /\ ~InRange(signatures[k].blockTime)
          ELSE signatures[k].tsKind = "iso" /\ ~InRange(signatures[k].blockTimestamp)
    /\ \E k \in 1..Len(upstream) :
          IF chain = "solana" THEN upstream[k].blockTime = 0 ELSE upstream[k].tsKind = "none"

(* C4: the returned list never holds two records with the same TransferKey. *)
C4_NoDuplicateTransferKey ==
    BatchReturned =>
        \A a, b \in 1..Len(returned) :
            a # b => TransferKey(returned[a]) # TransferKey(returned[b])

(* C9: the detail fetches in flight never exceed the worker limit. *)
C9_InFlightWithinWorkerLimit ==
    InFlight <= (IF chain = "solana" THEN SolSemaphore ELSE EthSemaphore)

(* Every permit taken by a fetch, one of them a retry's, and a task waiting. *)
C9_Witness ==
    /\ InFlight = SemaphoreOf(chain)
    /\ \E k \in 1..Len(tasks) : tasks[k].st = "fetching" /\ tasks[k].attempt > 0
    /\ \E k \in 1..Len(tasks) : tasks[k].st = "queued"

(* C10: a Solana item rate-limited on attempts 1 and 2 and served on
   attempt 3 is processed, after backoff delays of at least 3.5 s (7 half
   seconds). *)
C10_BackoffThenSuccess ==
    done_event.hist = <<"429", "429", "data">> =>
        /\ done_event.outcome = "processed"
        /\ tasks[done_event.k].st = "done"
        /\ done_event.slept >= 7

C10_Witness ==
    /\ done_event.hist = <<"429", "429", "data">>
    /\ tasks[done_event.k].result # <<>>

Holding ==
    Cardinality({k \in 1..Len(tasks) :
                    tasks[k].st \in {"fetching", "sleeping", "details", "receipt"}})

ProcessedResults ==
    Flatten([k \in 1..Len(tasks) |->
                IF tasks[k].outcome = "dropped" THEN <<>> ELSE tasks[k].result])

(* C11: a rate-limited Solana item is fetched at most 3 times; when all 3
   attempts are rate limited the item is dropped: it contributes no
   transfer and gives its permit back, and the gather it belongs to folds
   the transfers of the other items into the output as if the item had not
   been there. *)
C11_RateLimitExhaustedDropsItem ==
    /\ [](/\ \A k \in 1..Len(tasks) : tasks[k].attempt < MaxRetries
          /\ Len(done_event.hist) <= MaxRetries
          /\ done_event.hist = <<"429", "429", "429">> =>
                /\ done_event.outcome = "dropped"
                /\ tasks[done_event.k].st = "done"
                /\ tasks[done_event.k].result = <<>>
          /\ bpc = "gather" => semaphore + Holding = SemaphoreOf(chain))
    /\ [][Collect =>
            transactions' = AppendUntilLimit(transactions, ProcessedResults,
                                             max_transactions).transactions]_vars

(* Three rate-limited attempts of one item, next to an item of the same
   gather that yielded a record. *)
C11_Witness ==
    /\ done_event.hist = <<"429", "429", "429">>
    /\ done_event.outcome = "dropped"
    /\ \E j \in 1..Len(tasks) : j # done_event.k /\ tasks[j].result # <<>>

(* The listed transactions of the queried address whose native transfer
   is seen twice by the normalizer and by nothing else: once by the
   balance delta and once by a system transfer instruction, with the same
   source, destination, amount and token. *)
DeltaAndInstructionAgree ==
    {sig_obj \in SolSignatures :
        LET tx == SolTx(sig_obj.signature)
            parsed == parse_transaction_transfers(tx, SolUser)
        IN /\ Len(DeltaTransfers(tx, SolUser)) = 1
           /\ Len(parsed) = 2
           /\ parsed[1] = parsed[2]
           /\ parsed[1].token = "SOL"}

CountHash(records, h) == Cardinality({k \in 1..Len(records) : records[k].hash = h})

CountEdges(edges, h) ==
    Cardinality({k \in 1..Len(edges) : edges[k].transaction_hash = h})

Produced == transactions \o Flatten([k \in 1..Len(tasks) |-> tasks[k].result])

(* C12: a transaction of the queried address whose balance delta gives
   A->B of one unit and whose system transfer instruction gives the same
   A->B of one unit yields exactly one transfer and exactly one edge for its
   hash: one record once its fetch has returned, never a second one, and one
   edge in every graph built from a run that was not cut before the item. *)
C12_DeltaAndInstructionOneTransfer ==
    chain = "solana" =>
        \A sig_obj \in DeltaAndInstructionAgree :
            /\ CountHash(Produced, sig_obj.signature) <= 1
            /\ (/\ done_event.outcome = "processed"
                /\ Item(done_event.k) = sig_obj)
                  => CountHash(Produced, sig_obj.signature) = 1
            /\ BatchReturned => CountHash(returned, sig_obj.signature) <= 1
            /\ response.built =>
                  /\ CountEdges(response.edges, sig_obj.signature)
                        = CountHash(returned, sig_obj.signature)
                  /\ (/\ sig_obj \in Range(signatures)
                      /\ InRange(sig_obj.blockTime)
                      /\ Len(returned) < TierLimits.max_transactions)
                        => CountEdges(response.edges, sig_obj.signature) = 1

(* A graph with the one edge of such a transaction, listed twice upstream. *)
C12_Witness ==
    /\ chain = "solana"
    /\ response.built
    /\ \E sig_obj \in DeltaAndInstructionAgree :
          /\ SolTx(sig_obj.signature).instructions
                = <<SystemTransfer("SoLA", "SoLB", 1000000000)>>
          /\ Cardinality({k \in 1..Len(signatures) : signatures[k] = sig_obj}) = 2
          /\ CountEdges(response.edges, sig_obj.signature) = 1
          /\ \E k \in 1..Len(response.edges) :
                /\ response.edges[k].transaction_hash = sig_obj.signature
                /\ response.edges[k].source = "SoLA"
                /\ response.edges[k].destination = "SoLB"

(* The free-tier scenario: the upstream lists more signatures than the
   tier's max_transactions (and no more than one page of the list call),
   each once, all inside the time range, and the detail fetch of every
   signature the run fetches succeeds. *)
MoreThanMaxInRange ==
    /\ chain = "solana"
    /\ tier = "free"
    /\ entry = "graph"
    /\ Len(upstream) > SUBSCRIPTION_LIMITS.free.max_transactions
    /\ Len(upstream) <= fetch_limit("free")
    /\ \A a, b \in 1..Len(upstream) : a # b => upstream[a].signature # upstream[b].signature
    /\ \A k \in 1..Len(upstream) : upstream[k].blockTime # 0 /\ InRange(upstream[k].blockTime)
    /\ \A k \in 1..Len(signatures) : signatures[k].signature \notin FlakySignatures

(* C13: on the free tier, when the upstream lists more in-range signatures
   than max_transactions and every detail fetch succeeds, the result has
   exactly max_transactions transactions (total_transactions and edges) and
   transaction_limited is true. *)
C13_FreeTierCutAtMax ==
    (MoreThanMaxInRange /\ response.built) =>
        /\ Len(returned) = SUBSCRIPTION_LIMITS.free.max_transactions
        /\ response.total_transactions = SUBSCRIPTION_LIMITS.free.max_transactions
        /\ Len(response.edges) = SUBSCRIPTION_LIMITS.free.max_transactions
        /\ response.transaction_limited

C13_Witness ==
    /\ MoreThanMaxInRange
    /\ response.built
    /\ Len(signatures) = SUBSCRIPTION_LIMITS.free.max_transactions
    /\ Len(response.edges) = SUBSCRIPTION_LIMITS.free.max_transactions

(* amount * the hard-coded default of the record's symbol, 0 for a symbol
   without one. *)
UsdAtDefault(r) ==
    IF r.token \in DOMAIN default_prices("solana")
    THEN Times(r.amount, default_prices("solana")[r.token])
    ELSE Zero

SolSymbols == {"SOL", "USDC", "SPL Token"}

(* C14: when every call of the price oracle fails (unreachable or rate
   limited), each failed lookup gives the hard-coded default of a known
   symbol and 0 for an unknown one, every record and edge of a Solana run
   carries amount * that price, and the graph has the edges it has with a
   working oracle: one per transfer of the fetched items, up to the
   ceiling. *)
C14_OracleDownDefaultPrices ==
    /\ \A reply \in FailureReplies : \A symbol \in SolSymbols :
          get_token_price_usd_sync("solana", symbol, reply)
            = (IF symbol \in {"SOL", "USDC"}
               THEN default_prices("solana")[symbol] ELSE "0")
    /\ (chain = "solana" /\ oracle = "down") =>
          /\ \A k \in 1..Len(Produced) : Produced[k].usd_equivalent = UsdAtDefault(Produced[k])
          /\ \A k \in 1..Len(returned) : returned[k].usd_equivalent = UsdAtDefault(returned[k])
          /\ response.built =>
                /\ \A k \in 1..Len(response.edges) :
                      response.edges[k].usd_equivalent = UsdAtDefault(response.edges[k])
                /\ (\A k \in 1..Len(signatures) :
                       signatures[k].signature \notin FlakySignatures)
                     => Len(response.edges)
                          = Min(TierLimits.max_transactions,
                                Len(EligibleRecords(signatures, {})))

(* A graph built with the oracle down holding a native transfer, a
   transfer of a known token and a transfer of an unknown token. *)
C14_Witness ==
    /\ chain = "solana"
    /\ oracle = "down"
    /\ response.built
    /\ \E a, b, c \in 1..Len(response.edges) :
          /\ response.edges[a].token = "SOL"
          /\ response.edges[a].usd_equivalent = [amount |-> 1000000000, price |-> "204.95"]
          /\ response.edges[b].token = "USDC"
          /\ response.edges[b].usd_equivalent = [amount |-> 5, price |-> "0.999814"]
          /\ response.edges[c].token = "SPL Token"
          /\ response.edges[c].amount = 25
          /\ response.edges[c].usd_equivalent = Zero

(* C19: a Solana detail fetch that fails without a rate limit (None from
   get_solana_transaction_details_async) is not retried: the item makes
   that one attempt and is dropped. *)
C19_FetchFailedNotRetried ==
    /\ \A k \in 1..Len(tasks) :
          (chain = "solana" /\ "none" \in Range(tasks[k].hist))
            => tasks[k].st \notin {"sleeping", "fetching"}
    /\ (chain = "solana" /\ "none" \in Range(done_event.hist)) =>
          /\ done_event.hist = <<"none">>
          /\ done_event.outcome = "dropped"

(* C20: an Ethereum item whose detail call got a rate-limit response is
   retried: it is never dropped with that one call as its only attempt. *)
C20_EthRateLimitRetried ==
    ~(/\ chain = "ethereum"
      /\ done_event.hist = <<"429">>
      /\ done_event.outcome = "dropped")

(* The run is over: get_wallet_graph_data has answered, or the batch
   processor has returned to a caller that called it directly. *)
RunEnded == bpc = "done" \/ (entry = "batch" /\ bpc = "returned")

(* C31: under an upstream whose calls all come back, every run ends: no
   item makes more than max_retries attempts, every gather that was started
   is folded, and the batch processor returns (the graph is then
   assembled). *)
C31_EveryRunTerminates ==
    /\ [](/\ \A k \in 1..Len(tasks) : tasks[k].attempt < MaxRetries
          /\ Len(done_event.hist) <= MaxRetries)
    /\ (bpc = "gather") ~> (bpc # "gather")
    /\ <>RunEnded

(* A run that ended with its ceiling not reached and without a record of an
   in-range item it was given: the item's fetches failed to the end. *)
C31_Witness ==
    /\ RunEnded
    /\ chain = "solana"
    /\ Len(signatures) >= 2
    /\ Len(returned) < max_transactions
    /\ \E k \in 1..Len(signatures) :
          /\ signatures[k].signature \in FlakySignatures
          /\ InRange(signatures[k].blockTime)
          /\ CountHash(returned, signatures[k].signature) = 0


(* The entries of ERC20_TOKENS whose address is the given one under the
   case-insensitive rule of hex addresses. *)
TableEntries(token_address) ==
    {a \in DOMAIN ERC20_TOKENS.symbol : Lower(a) = Lower(token_address)}

IsSynthetic(token_symbol) == token_symbol \in {SyntheticSymbol("0xusdc"), SyntheticSymbol("")}

(* C32: an Ethereum token transfer whose contract is in ERC20_TOKENS
   (addresses compared without regard to case) carries the table's symbol,
   and a synthetic TOKEN_ symbol stands only on a transfer whose contract
   the table does not hold. *)
C32_KnownTokenFromTable ==
    chain = "ethereum" =>
        \A k \in 1..Len(Produced) :
            Produced[k].token_address # "none" =>
                /\ \A a \in TableEntries(Produced[k].token_address) :
                      Produced[k].token = ERC20_TOKENS.symbol[a]
                /\ IsSynthetic(Produced[k].token)
                      => TableEntries(Produced[k].token_address) = {}

(* An item the upstream listed was left out of the result because its
   timestamp is before the tier's earliest time. *)
ExcludedByTime ==
    \E k \in 1..Len(upstream) :
        IF chain = "solana"
        THEN upstream[k].blockTime # 0 /\ ~InRange(upstream[k].blockTime)
        ELSE /\ upstream[k].hash # "none"
             /\ upstream[k].blockNum # 0
             /\ upstream[k].tsKind = "iso"
             /\ ~InRange(upstream[k].blockTimestamp)

(* C33: time_limited is true exactly when an upstream item was excluded by
   the time window. *)
C33_TimeLimitedIffExcluded ==
    response.built => (response.time_limited <=> ExcludedByTime)

ReturnedKeys == {TransferKey(returned[k]) : k \in 1..Len(returned)}

(* No detail fetch of the run can fail. *)
AllReliable ==
    \A k \in 1..Len(upstream) : upstream[k] \in ReliableItems(chain)

(* C34: on Ethereum a transfer is discarded only for its TransferKey: of a
   run for the graph whose fetches all succeed and that is not cut at the
   ceiling, every in-range transfer the upstream listed is in the result
   under its key, also when it shares its hash with another one. *)
C34_DistinctKeysBothSurvive ==
    (/\ chain = "ethereum"
     /\ entry = "graph"
     /\ BatchReturned
     /\ AllReliable
     /\ Len(returned) < max_transactions) =>
        \A r \in Range(EligibleRecords(upstream, {})) : TransferKey(r) \in ReturnedKeys

(* C40: sub-batches run strictly one after another. The tasks in existence
   are those of the current sub-batch only, the loop moves on only when
   every one of them has finished, and the time slept between batches by
   the start of sub-batch k+1 is k times the inter-batch delay (0.5 s
   Solana, 0.3 s Ethereum): one delay between each batch and the next. *)
C40_BatchesStrictlySequential ==
    /\ [](tasks # <<>> => /\ bpc = "gather"
                          /\ Len(tasks) = Len(BatchItems))
    /\ [](bpc = "gather" =>
            batch_sleeps = (offset \div batch_size) * InterBatchDelay(chain))
    /\ [][bpc = "gather" /\ bpc' # "gather" =>
            \A k \in 1..Len(tasks) : tasks[k].st = "done"]_vars
    /\ [][bpc' = "gather" /\ offset' > 0 /\ bpc # "gather" =>
            /\ tasks = <<>>
            /\ batch_sleeps >= InterBatchDelay(chain)]_vars

(* The second sub-batch has a fetch in flight after a first one in which an
   item was dropped. *)
C40_Witness ==
    /\ bpc = "gather"
    /\ offset > 0
    /\ batch_sleeps = InterBatchDelay(chain)
    /\ \E k \in 1..Len(tasks) : tasks[k].st \in {"fetching", "details"}
    /\ Len(transactions) < offset

NodeIds == {response.nodes[k].id : k \in 1..Len(response.nodes)}

(* C24: in every result that is not the error dictionary, no two nodes
   have the same id and there is a node for each address of the returned
   transfers and for the queried one, every edge runs between two nodes,
   there are as many edges as total_transactions says and as the batch
   processor returned transfers, every edge weighs its amount, and
   unique_addresses is the number of nodes minus one. *)
C24_GraphWellFormed ==
    response.built =>
        /\ \A a, b \in 1..Len(response.nodes) :
              a # b => response.nodes[a].id # response.nodes[b].id
        /\ NodeIds = {MainNodeId(chain)}
                        \cup {returned[k].source : k \in 1..Len(returned)}
                        \cup {returned[k].destination : k \in 1..Len(returned)}
        /\ \A k \in 1..Len(response.edges) :
              /\ response.edges[k].source \in NodeIds
              /\ response.edges[k].destination \in NodeIds
              /\ response.edges[k].weight = response.edges[k].amount
              /\ response.edges[k].amount = returned[k].amount
        /\ Len(response.edges) = response.total_transactions
        /\ Len(response.edges) = Len(returned)
        /\ response.unique_addresses = Len(response.nodes) - 1

(* A graph of several edges in which an address is met again: fewer nodes
   than edge ends. *)
C24_Witness ==
    /\ response.built
    /\ Len(response.edges) >= 2
    /\ Len(response.nodes) >= 3
    /\ Len(response.nodes) < 2 * Len(response.edges)
    /\ \E a, b \in 1..Len(response.edges) :
          a # b /\ response.edges[a].destination = response.edges[b].destination
                /\ response.edges[a].destination # MainNodeId(chain)

(* The queried address as the chain's records spell addresses: lower case
   on Ethereum, as given on Solana. *)
QueriedAddress == IF chain = "ethereum" THEN Lower(UserOf(chain)) ELSE UserOf(chain)

DirectionAgrees(r) ==
    /\ r.direction = "outgoing" => r.source = QueriedAddress
    /\ r.direction = "incoming" => r.destination = QueriedAddress
    /\ r.direction = "interaction" =>
          r.source # QueriedAddress /\ r.destination # QueriedAddress

(* C25: in every returned transfer record an outgoing direction means the
   source is the queried address, an incoming one that the destination is,
   and an interaction that neither of them is. *)
C25_DirectionRelativeToQueried ==
    BatchReturned => \A k \in 1..Len(returned) : DirectionAgrees(returned[k])

(* The item carries a timestamp of its own (a block time, an ISO
   blockTimestamp) and that timestamp is before earliest_time. *)
PredatesEarliest(item) ==
    IF chain = "solana"
    THEN item.blockTime # 0 /\ BeforeEarliest(item.blockTime, earliest_time)
    ELSE item.tsKind = "iso" /\ BeforeEarliest(item.blockTimestamp, earliest_time)

(* C26: an item whose known timestamp predates earliest_time never holds a
   permit of the semaphore and never has a detail or receipt fetch issued
   for it: it is skipped with no attempt made. *)
C26_OldItemSkippedWithoutFetch ==
    bpc = "gather" =>
        /\ \A k \in 1..Len(tasks) :
              PredatesEarliest(Item(k)) =>
                  /\ tasks[k].st \notin {"fetching", "sleeping", "details", "receipt"}
                  /\ tasks[k].hist = <<>>
        /\ (done_event.k # 0 /\ PredatesEarliest(Item(done_event.k))) =>
              /\ done_event.outcome = "skipped"
              /\ done_event.hist = <<>>

FetchStartedOrPending ==
    \E k \in 1..Len(tasks) : tasks[k].st # "done"

(* C27: once len(transactions) has reached max_transactions no detail
   fetch is started or pending, whatever is left of the input: no gather is
   running, and the run has returned the first max_transactions transfers
   without an error. *)
C27_CeilingStopsFetching ==
    (entry \in {"graph", "batch"} /\ Len(transactions) >= max_transactions) =>
        /\ bpc \in {"returned", "done"}
        /\ ~FetchStartedOrPending
        /\ tasks = <<>>
        /\ returned = Truncate(transactions, max_transactions)
        /\ Len(returned) = max_transactions
        /\ ~response.error

(* The batch processor returned at the ceiling with a whole sub-batch of
   its input never started. *)
C27_Witness ==
    /\ entry = "batch"
    /\ bpc = "returned"
    /\ Len(transactions) >= max_transactions
    /\ Len(returned) = max_transactions
    /\ offset + BatchSizeOf(chain) < Len(signatures)

InBackoff == {k \in 1..Len(tasks) : tasks[k].st = "sleeping"}

(* C28: an item waiting in retry backoff holds no worker slot: the permits
   taken are those of the fetches in flight, and an item that has not
   started can take a permit whenever fewer fetches than the worker limit
   are in flight, however many items are in backoff. *)
C28_BackoffHoldsNoSlot ==
    bpc = "gather" =>
        /\ semaphore + InFlight = SemaphoreOf(chain)
        /\ ((\E k \in 1..Len(tasks) : tasks[k].st = "queued")
              /\ InFlight < SemaphoreOf(chain)) => CanAcquire(semaphore)

(***************************************************************************)
(* Claims about the order of the output (SpecSched).                       *)
(***************************************************************************)
SourceKey(item) == IF chain = "solana" THEN item.signature ELSE item.hash

Positions(h) == {i \in 1..Len(signatures) : SourceKey(signatures[i]) = h}

InInputOrder(records) ==
    \A a, b \in 1..Len(records) :
        a < b => \E i \in Positions(records[a].hash) :
                    \E j \in Positions(records[b].hash) : i <= j

(* C29: the output keeps the order of the input: the records of a gather
   are appended after those of the earlier sub-batches, item by item in the
   order of the items and not in the order in which their fetches finished,
   so a record never stands before a record of an item listed earlier. *)
C29_OutputKeepsInputOrder ==
    /\ [](InInputOrder(transactions) /\ InInputOrder(returned))
    /\ [][Collect =>
            transactions' =
                Truncate(transactions \o Flatten([k \in 1..Len(tasks) |-> tasks[k].result]),
                         max_transactions)]_vars

(* The first item of a gather finishes last, after a later item that
   yielded a record. *)
C29_Witness ==
    /\ bpc = "gather"
    /\ Len(tasks) >= 2
    /\ done_event.k = 1
    /\ \A k \in 1..Len(tasks) : tasks[k].st = "done"
    /\ tasks[1].result # <<>>
    /\ tasks[2].result # <<>>
    /\ Item(1) # Item(2)

(* C30: the list a Solana run returns is fixed by its input: it is the list
   of the run that takes the items one at a time in input order, whatever
   the order in which the concurrent tasks finish and also when a signature
   is listed more than once. *)
C30_ScheduleIndependentOutput ==
    (chain = "solana" /\ BatchReturned) =>
        returned = Truncate(EligibleRecords(signatures, {}), max_transactions)

(* limitations_applied of a result, and the one of a result built from an
   empty transaction list (an address without activity). *)
LimitationsApplied(r) ==
    [time_limited |-> r.time_limited, transaction_limited |-> r.transaction_limited]

NoActivityFlags ==
    [time_limited |-> Len(<<>>) > 0,
     transaction_limited |-> TransactionLimited(Len(<<>>), get_subscription_limits(tier))]

(* Fewer transfers were returned than the in-range items handed to the
   batch processor hold, up to the ceiling: the transfers of at least one
   in-range item were lost to a failed detail fetch. *)
Degraded ==
    Len(returned) < Min(TierLimits.max_transactions, Len(EligibleRecords(signatures, {})))

(* C23: a degraded result (an in-range item dropped after its detail fetch
   failed or ran out of retries) carries limitations_applied flags that
   differ from those of a result for an address without activity. *)
C23_DegradedFlagsDiffer ==
    (response.built /\ Degraded) => LimitationsApplied(response) # NoActivityFlags

MainWalletNodes == {n \in Range(response.nodes) : n.type = "main_wallet"}

(* C17: every graph get_wallet_graph_data returns, the one of its failure
   path included, holds the queried address as a node, and that node is its
   only main_wallet node. *)
C17_MainWalletNodeAlways ==
    (response.built \/ response.error) =>
        /\ Cardinality(MainWalletNodes) = 1
        /\ \A n \in MainWalletNodes : Lower(n.id) = Lower(UserOf(chain))

(***************************************************************************)
(* Claims about the price cache (SpecPrice).                               *)
(***************************************************************************)
Called == price_call.symbol # "none"

(* C21: what get_cached_token_price(symbol) returns is the price of the
   symbol's cache entry, and that entry was fetched less than
   PRICE_CACHE_TTL seconds before the call; a call that finds the entry
   missing or that old runs the upstream lookup before it returns. *)
C21_ReturnedPriceIsFresh ==
    Called =>
        /\ price_call.symbol \in DOMAIN token_price_cache
        /\ price_call.price = token_price_cache[price_call.symbol].price
        /\ IsFresh(token_price_cache[price_call.symbol], now)
        /\ price_call.before \in {"missing", "stale"} => price_call.looked_up

(***************************************************************************)
(* Claims about the quota ledger and the route (SpecQuota).                *)
(***************************************************************************)
DailyLimit == get_subscription_limits(tier).daily_address_limit

AtLimitAndNew(req) ==
    /\ req.checked
    /\ Lower(req.wallet_address) \notin req.used
    /\ Cardinality(req.used) = DailyLimit

(* C5: a new address that meets a used set as large as the daily limit is
   rejected with the quota-exceeded signal: the request goes no further,
   and it ends with that signal and without an aggregation result. *)
C5_NewAddressAtLimitRejected ==
    /\ \A req \in BagToSet(requests) : ~AtLimitAndNew(req)
    /\ AtLimitAndNew(done_request) =>
          /\ done_request.exc = 403
          /\ ~done_request.graph
          /\ done_request.status # 200

C5_Witness ==
    /\ AtLimitAndNew(done_request)
    /\ done_request.exc = 403
    /\ DailyLimit > 0

(* C6: a quota rejection reaches the caller of POST /data/wallet as a 403. *)
C6_QuotaRejectionIs403 ==
    done_request.exc = 403 => done_request.status = 403

(* C7: logging an address that is already in the used set does not grow
   the set, and of two consecutive calls of the engine for one address, each
   the only request in the engine at its time, the second reports a
   'remaining' no smaller than the first. *)
C7_RequeryKeepsQuota ==
    /\ [](/\ done_request.status = 200
          /\ done_request.alone
          /\ done_request.prev.status = 200
          /\ done_request.prev.alone
          /\ done_request.prev.wallet_address = Lower(done_request.wallet_address)
          => done_request.remaining >= done_request.prev.remaining)
    /\ [][\A req \in BagToSet(requests) :
            InsertOne(req) /\ Lower(req.wallet_address) \in used_addresses(tier)
            => used_addresses(tier)' = used_addresses(tier)]_vars

(* Two such calls, with quota left to lose after the first. *)
C7_Witness ==
    /\ done_request.status = 200
    /\ ~done_request.from_cache
    /\ done_request.alone
    /\ done_request.prev.status = 200
    /\ done_request.prev.alone
    /\ done_request.prev.wallet_address = Lower(done_request.wallet_address)
    /\ done_request.prev.remaining > 0

(* C15: the only rejections a caller of the aggregate call sees are the
   invalid address and the exceeded quota; every other request ends with an
   aggregation result (graph, summary, limitations_applied). *)
C15_OnlyTwoRejections ==
    done_request.pc = "done" =>
        \/ done_request.exc \in {400, 403}
        \/ done_request.result = "graph"

(* C16: a request with a malformed address is rejected before any call to
   the result cache, the ledger, the upstream or the price oracle is made
   for it. *)
C16_InvalidAddressBeforeAnyCall ==
    done_request.exc = 400 => done_request.calls = <<>>

(* C18: a cached result is returned only to a request whose (user, tier,
   chain, address) is the one it was stored under, whichever endpoint reads
   the cache. *)
C18_CacheHitSameTuple ==
    done_request.from_cache => done_request.served = RequestTuple(done_request)

(* The calls of an accepted request of POST /data/wallet, in order: the
   cache lookup, the quota check's read of the ledger, the query log, the
   aggregation, the cache write. *)
LifecycleCalls == <<"redis_get", "distinct", "insert_one", "get_wallet_graph_data", "redis_set">>

OverLimit(req) ==
    /\ Lower(req.wallet_address) \notin req.used
    /\ Cardinality(req.used) >= DailyLimit

Logged(req) ==
    \E l \in wallet_query_logs : l.wallet_address = Lower(req.wallet_address)

(* C22: a request that is given an aggregation result has gone through the
   quota check, the query log, the aggregation and the cache write in that
   order; a request is past the quota check only if the check let it
   through, the aggregation is called only for such a request, and a
   rejection is raised only by a request that has neither logged nor
   fetched anything: the quota rejection by the quota check itself. *)
C22_LifecycleOrder ==
    /\ \A req \in BagToSet(requests) :
          /\ req.exc = 0
          /\ req.pc = "distinct" => req.calls = SubSeq(LifecycleCalls, 1, 1)
          /\ req.pc = "insert_one" =>
                req.calls = SubSeq(LifecycleCalls, 1, 2) /\ req.checked /\ ~OverLimit(req)
          /\ req.pc = "graph" =>
                /\ req.calls = SubSeq(LifecycleCalls, 1, 3)
                /\ req.checked /\ ~OverLimit(req) /\ Logged(req)
    /\ (done_request.result = "graph" /\ ~done_request.from_cache) =>
          /\ done_request.calls = LifecycleCalls
          /\ done_request.status = 200
          /\ done_request.checked /\ ~OverLimit(done_request) /\ Logged(done_request)
    /\ done_request.exc = 403 =>
          /\ done_request.calls = SubSeq(LifecycleCalls, 1, 2)
          /\ OverLimit(done_request)
    /\ done_request.exc # 0 =>
          /\ "insert_one" \notin Range(done_request.calls)
          /\ "get_wallet_graph_data" \notin Range(done_request.calls)
          /\ done_request.result = "none"

(* A request answered with a fresh aggregation result, not the first to
   arrive, whose quota check found the ledger at the limit and its address
   in it. *)
C22_Witness ==
    /\ done_request.result = "graph"
    /\ ~done_request.from_cache
    /\ done_request.calls = LifecycleCalls
    /\ Cardinality(done_request.used) = DailyLimit
    /\ arrived > 1

(* A request the engine accepted and answered with a result of its own. *)
Accepted(req) == req.result = "graph" /\ ~req.from_cache

(* C35: when the requests of the user come one after the other, the day's
   distinct logged addresses never exceed daily_address_limit, and every
   request the engine accepts reports remaining = daily_address_limit minus
   the number of distinct addresses used, its own included, which is never
   negative. *)
C35_SequentialWithinLimit ==
    /\ Cardinality(used_addresses(tier)) <= DailyLimit
    /\ Accepted(done_request) =>
          /\ Lower(done_request.wallet_address) \in used_addresses(tier)
          /\ used_addresses(tier) = done_request.used \cup {Lower(done_request.wallet_address)}
          /\ done_request.remaining = DailyLimit - Cardinality(used_addresses(tier))
          /\ done_request.remaining >= 0

(* The request that takes the last unit of the day's quota, after another
   request of the same day. *)
C35_Witness ==
    /\ Accepted(done_request)
    /\ IsNew(done_request.wallet_address, done_request.used)
    /\ done_request.remaining = 0
    /\ Cardinality(used_addresses(tier)) = DailyLimit
    /\ arrived >= 2

(* The request before this one was accepted for a Solana address that is
   not this one, and it left the day's set full with that address alone. *)
FullOfAnotherSolanaAddress(req) ==
    /\ req.chain = "solana"
    /\ req.checked
    /\ req.prev.status = 200
    /\ req.prev.asked # ChainAddress(req.chain, req.wallet_address)
    /\ req.used = {Lower(req.prev.asked)}
    /\ Cardinality(req.used) >= DailyLimit

(* C36: a Solana address that differs from the one address of a full day's
   set, be it only in the case of a letter, is a new address: the request
   for it is rejected with the quota signal. *)
C36_SolanaCaseSensitiveQuota ==
    FullOfAnotherSolanaAddress(done_request) => done_request.exc = 403

(* C37: a request rejected for quota has changed nothing: the step that
   rejects it leaves wallet_query_logs and the result cache as they are,
   and the request has called nothing but the cache lookup and the ledger's
   distinct(): no insert, no aggregation (chain, balance, price), no cache
   write. *)
C37_QuotaRejectionChangesNothing ==
    /\ [](done_request.exc = 403 =>
            /\ done_request.calls = <<"redis_get", "distinct">>
            /\ ~done_request.graph
            /\ done_request.result = "none"
            /\ CacheKey(tier, done_request.chain, done_request.wallet_address)
                  \notin DOMAIN cache)
    /\ [][done_request'.exc = 403 =>
            /\ wallet_query_logs' = wallet_query_logs
            /\ cache' = cache]_vars

(* A rejection while the ledger and the result cache hold entries. *)
C37_Witness ==
    /\ done_request.exc = 403
    /\ wallet_query_logs # {}
    /\ DOMAIN cache # {}
    /\ arrived >= 2

(* C38: the result cache holds no response that carries an "error" field,
   and no request is answered with one from the cache. *)
C38_NoErrorResultCached ==
    /\ \A key \in DOMAIN cache : cache[key].result # "error"
    /\ done_request.from_cache => done_request.result # "error"

HitKey(req) == CacheKey(tier, req.chain, req.wallet_address)

(* C39: a request answered from the result cache gets the stored result as
   it is, its rate_limit_info included, and has done nothing but the cache
   lookup: no quota check, no log record, no aggregation, no cache write;
   the step leaves the ledger and the cache as they are. *)
C39_CacheHitReturnsStored ==
    /\ [](done_request.from_cache =>
            /\ done_request.calls = <<"redis_get">>
            /\ ~done_request.checked
            /\ ~done_request.graph
            /\ done_request.status = 200)
    /\ [][done_request'.from_cache =>
            /\ HitKey(done_request') \in DOMAIN cache
            /\ done_request'.remaining = cache[HitKey(done_request')].remaining
            /\ done_request'.result = cache[HitKey(done_request')].result
            /\ wallet_query_logs' = wallet_query_logs
            /\ cache' = cache
            /\ requests' = requests]_vars

(* A cache hit whose rate_limit_info is no longer the user's: another
   address has been logged since the result was stored. *)
C39_Witness ==
    /\ done_request.from_cache
    /\ done_request.result = "graph"
    /\ done_request.remaining
          # Remaining(done_request.wallet_address, used_addresses(Lower(tier)), tier)

(* C8: the distinct addresses logged for the user on the day never exceed
   daily_address_limit + 1. *)
C8_AtMostOneOverLimit ==
    Cardinality(used_addresses(tier)) <= DailyLimit + 1

====
